---- MODULE Spec2Model ----
(***************************************************************************)
(* Document-to-structured-data pipeline of the donation-form OCR system:   *)
(* Preprocessor -> Detector -> Segmenter -> Extractor, the OCRPipeline     *)
(* that sequences them, and the functions on text and card numbers.        *)
(*                                                                         *)
(* Each component is a state machine whose steps are the await points of   *)
(* its async methods.  The outcomes of the external collaborators (PDF     *)
(* rasterizer, Jimp, OpenCV, Tesseract) are chosen nondeterministically at *)
(* the step that calls them.                                               *)
(***************************************************************************)
EXTENDS Integers, Sequences, FiniteSets, TLC

VARIABLES
    pre,          \* the in-flight Preprocessor.processDocument call
    preMetrics,   \* Preprocessor.metrics
    det,          \* the in-flight Detector.detectForms call
    detector,     \* the Detector object: engine state, metrics
    seg,          \* the in-flight Segmenter.segmentFormFields call
    segmenter,    \* the Segmenter object: metrics
    ext,          \* the in-flight Extractor call
    extractor,    \* the Extractor object: environment, engine state, metrics
    pipe,         \* the in-flight OCRPipeline.processDocument call
    util,         \* the calls of the text and card-number functions on one input
    sharedDetector, \* a Detector object and the detectForms calls of its concurrent callers
    queue,        \* the QueueManager: its jobs and its processor
    upload        \* the upload interface and the local storage under it

vars == <<pre, preMetrics, det, detector, seg, segmenter, ext, extractor, pipe, util,
          sharedDetector, queue, upload>>

----------------------------------------------------------------------------
(* Bounds of the model *)

MaxPages == 2      \* pages a PDF can rasterize before the rasterizer is cut off
MaxTime == 1       \* largest elapsed time (Date.now() difference) observed
MaxPreCalls == 2   \* Preprocessor.processDocument calls in one behaviour
MaxDetCalls == 2   \* Detector.detectForms calls in one behaviour
MaxExtCalls == 2   \* Extractor calls in one behaviour
MaxSegCalls == 2   \* Segmenter.segmentFormFields calls in one behaviour
MaxBoxOrigin == 7  \* largest x and y of the box of an element
MaxBoxSide == 3    \* largest width and height of the box of an element
MaxElements == 3   \* most elements found in one form
MaxCallers == 2    \* concurrent callers of one Detector
MaxStarted == 3    \* detectForms calls on the shared Detector
MaxJobs == 3       \* distinct jobIds
MaxAdded == 4      \* addProcessingJob calls
MaxHandled == 2    \* handleFiles calls
MaxBatch == 2      \* files in one handleFiles call
MaxPipeCalls == 1  \* OCRPipeline.processDocument calls in one behaviour
MaxPipePages == 1  \* pages of a document handed to the pipeline
RawWidth == 3      \* decoded width of an input image
RawHeight == 4     \* decoded height of an input image

----------------------------------------------------------------------------
(* Generic helpers *)

Range(s) == {s[i] : i \in 1..Len(s)}

Min(a, b) == IF a <= b THEN a ELSE b

Max(a, b) == IF a >= b THEN a ELSE b

\* the least and the greatest element of a non-empty set of numbers
MinOf(S) == CHOOSE p \in S : \A q \in S : p <= q

MaxOf(S) == CHOOSE p \in S : \A q \in S : p >= q

RECURSIVE Gcd(_, _)
Gcd(a, b) == IF b = 0 THEN a ELSE Gcd(b, a % b)

----------------------------------------------------------------------------
(* Strings.  A JavaScript string is a sequence of one-character strings;   *)
(* the check mark U+2713 is the element "CHECK".                           *)

Digits == {"0", "1", "2", "3", "4", "5", "6", "7", "8", "9"}

UpperLetters == <<"A", "B", "C", "D", "E", "F", "G", "H", "I", "J", "K", "L", "M",
                  "N", "O", "P", "Q", "R", "S", "T", "U", "V", "W", "X", "Y", "Z">>

LowerLetters == <<"a", "b", "c", "d", "e", "f", "g", "h", "i", "j", "k", "l", "m",
                  "n", "o", "p", "q", "r", "s", "t", "u", "v", "w", "x", "y", "z">>

Letters == Range(UpperLetters) \cup Range(LowerLetters)

\* the characters matched by \s
Spaces == {" ", "\n", "\t"}

\* String.prototype.toLowerCase, on one character
LowerChar(c) ==
    IF c \in Range(UpperLetters)
    THEN LowerLetters[CHOOSE i \in 1..26 : UpperLetters[i] = c]
    ELSE c

toLowerCase(s) == [i \in 1..Len(s) |-> LowerChar(s[i])]

\* s.startsWith(prefix, at - 1)
StartsWithAt(s, prefix, at) ==
    /\ at + Len(prefix) - 1 <= Len(s)
    /\ \A i \in 1..Len(prefix) : s[at + i - 1] = prefix[i]

startsWith(s, prefix) == StartsWithAt(s, prefix, 1)

\* s.includes(part)
includes(s, part) == \E at \in 1..(Len(s) + 1) : StartsWithAt(s, part, at)

\* s.trim()
trim(s) ==
    LET keep == {i \in 1..Len(s) : s[i] \notin Spaces}
    IN  IF keep = {} THEN <<>>
        ELSE SubSeq(s, CHOOSE i \in keep : \A j \in keep : i <= j,
                       CHOOSE i \in keep : \A j \in keep : i >= j)

\* s.padStart(2, '0')
padStart2(s) == IF Len(s) < 2 THEN <<"0">> \o s ELSE s

\* the characters of s that satisfy keep, in order (s.replace(/[...]/g, ''))
RECURSIVE KeepChars(_, _)
KeepChars(s, keep) ==
    IF s = <<>> THEN <<>>
    ELSE (IF Head(s) \in keep THEN <<Head(s)>> ELSE <<>>) \o KeepChars(Tail(s), keep)

RECURSIVE DropChars(_, _)
DropChars(s, drop) ==
    IF s = <<>> THEN <<>>
    ELSE (IF Head(s) \in drop THEN <<>> ELSE <<Head(s)>>) \o DropChars(Tail(s), drop)

DigitValue(c) == CHOOSE v \in 0..9 : <<"0", "1", "2", "3", "4", "5", "6", "7", "8", "9">>[v + 1] = c

\* parseInt of a string of digits
RECURSIVE parseIntFrom(_, _)
parseIntFrom(s, acc) ==
    IF s = <<>> \/ Head(s) \notin Digits THEN acc
    ELSE parseIntFrom(Tail(s), 10 * acc + DigitValue(Head(s)))

parseInt(s) == parseIntFrom(s, 0)

\* String(n) of a natural number
RECURSIVE NatToString(_)
NatToString(n) ==
    LET d == <<"0", "1", "2", "3", "4", "5", "6", "7", "8", "9">>[(n % 10) + 1]
    IN  IF n < 10 THEN <<d>> ELSE NatToString(n \div 10) \o <<d>>

RECURSIVE Flatten(_)
Flatten(ss) == IF ss = <<>> THEN <<>> ELSE Head(ss) \o Flatten(Tail(ss))

----------------------------------------------------------------------------
(* Regular expressions, matched as the JavaScript engine does: by          *)
(* backtracking, alternatives tried left to right and quantifiers greedy.  *)
(* A pattern is a program of a backtracking machine; a thread of the       *)
(* machine is a program counter, a text position and the capture groups.   *)

NGroups == 4                                     \* capture groups of a thread

Unbounded == 1000                                \* the upper limit of * and +

NoCaps == [g \in 1..NGroups |-> <<0, 0>>]

\* [...] or, negated, [^...]: one character of the class
Class(set, negated, min, max) ==
    <<[op |-> "span", set |-> set, negated |-> negated, min |-> min, max |-> max]>>

In(set) == Class(set, FALSE, 1, 1)

NotIn(set) == Class(set, TRUE, 1, 1)

Digit == In(Digits)                              \* \d

Space == In(Spaces)                              \* \s

\* a literal string; under the i flag when ignoreCase
Literal(s, ignoreCase) == <<[op |-> "lit", s |-> s, ignoreCase |-> ignoreCase]>>

Lit(s) == Literal(s, FALSE)

LitI(s) == Literal(s, TRUE)

Split(x, y) == <<[op |-> "split", x |-> x, y |-> y]>>

Jmp(x) == <<[op |-> "jmp", x |-> x]>>

Bol == <<[op |-> "bol"]>>                        \* ^

Eol == <<[op |-> "eol"]>>                        \* $

\* r1 r2 ...
Cat(items) == Flatten(items)

\* r1 | r2 | ...
RECURSIVE Alt(_)
Alt(items) ==
    IF Len(items) = 1 THEN items[1]
    ELSE LET rest == Alt(Tail(items))
         IN  Split(1, Len(items[1]) + 2) \o items[1] \o Jmp(Len(rest) + 1) \o rest

\* ( ... ), capture group idx
Grp(idx, item) ==
    <<[op |-> "save", group |-> idx, side |-> 1]>> \o item
    \o <<[op |-> "save", group |-> idx, side |-> 2]>>

\* item{n}
RECURSIVE Copies(_, _)
Copies(item, n) == IF n = 0 THEN <<>> ELSE item \o Copies(item, n - 1)

\* (item(item(...)?)?)?, k deep
RECURSIVE Optionals(_, _)
Optionals(item, k) ==
    IF k = 0 THEN <<>>
    ELSE LET inner == item \o Optionals(item, k - 1)
         IN  Split(1, Len(inner) + 1) \o inner

\* item{min,max}, greedy; a repeated class is one instruction
Rep(item, min, max) ==
    IF Len(item) = 1 /\ item[1].op = "span" /\ item[1].min = 1 /\ item[1].max = 1
    THEN Class(item[1].set, item[1].negated, min, max)
    ELSE Copies(item, min) \o
         (IF max = Unbounded
          THEN Split(1, Len(item) + 2) \o item \o Jmp(0 - (Len(item) + 1))
          ELSE Optionals(item, max - min))

Star(item) == Rep(item, 0, Unbounded)

Plus(item) == Rep(item, 1, Unbounded)

Opt(item) == Rep(item, 0, 1)

\* the longest run of characters of the class at position sp, up to max
SpanLength(ins, text, sp) ==
    MaxOf({k \in 0..Min(ins.max, Len(text) - sp + 1) :
               \A j \in 1..k : (text[sp + j - 1] \in ins.set) # ins.negated})

\* the thread stack after the thread on top of it has executed its
\* instruction: the threads it continues as, most preferred first, in
\* front of the threads to backtrack to
ReStep(prog, text, stack) ==
    LET t == Head(stack)
        rest == Tail(stack)
        ins == prog[t.pc]
        next == [t EXCEPT !.pc = @ + 1]
    IN  CASE ins.op = "span" ->
               LET longest == SpanLength(ins, text, t.sp)
               IN  IF longest < ins.min THEN rest
                   ELSE [j \in 1..(longest - ins.min + 1) |->
                           [next EXCEPT !.sp = t.sp + longest - j + 1]] \o rest
          [] ins.op = "lit" ->
               IF StartsWithAt(IF ins.ignoreCase THEN toLowerCase(text) ELSE text,
                               IF ins.ignoreCase THEN toLowerCase(ins.s) ELSE ins.s,
                               t.sp)
               THEN <<[next EXCEPT !.sp = t.sp + Len(ins.s)]>> \o rest
               ELSE rest
          [] ins.op = "split" ->
               <<[t EXCEPT !.pc = @ + ins.x], [t EXCEPT !.pc = @ + ins.y]>> \o rest
          [] ins.op = "jmp" -> <<[t EXCEPT !.pc = @ + ins.x]>> \o rest
          [] ins.op = "save" ->
               <<[next EXCEPT !.caps[ins.group][ins.side] = t.sp]>> \o rest
          [] ins.op = "bol" -> IF t.sp = 1 THEN <<next>> \o rest ELSE rest
          [] ins.op = "eol" -> IF t.sp = Len(text) + 1 THEN <<next>> \o rest ELSE rest

\* runs the machine until a thread reaches the end of the program (the
\* match the engine reports) or no thread is left
RECURSIVE ReRun(_, _, _)
ReRun(prog, text, stack) ==
    IF stack = <<>> THEN [found |-> FALSE, to |-> 0, caps |-> NoCaps]
    ELSE IF Head(stack).pc > Len(prog)
    THEN [found |-> TRUE, to |-> Head(stack).sp, caps |-> Head(stack).caps]
    ELSE ReRun(prog, text, ReStep(prog, text, stack))

\* the match of re that starts at position pos
ReMatchAt(re, text, pos) == ReRun(re, text, <<[pc |-> 1, sp |-> pos, caps |-> NoCaps]>>)

NoMatch == [found |-> FALSE, from |-> 0, to |-> 0, caps |-> NoCaps]

\* the match found at its first possible start
ReFound(first, m) == [found |-> TRUE, from |-> first, to |-> m.to, caps |-> m.caps]

ReSearchIn(re, text, starts) ==
    IF starts = {} THEN NoMatch
    ELSE ReFound(MinOf(starts), ReMatchAt(re, text, MinOf(starts)))

\* the leftmost match of re in text starting at or after position from
ReSearchFrom(re, text, from) ==
    ReSearchIn(re, text, {p \in from..(Len(text) + 1) : ReMatchAt(re, text, p).found})

\* text.match(re) without the g flag; re.test(text)
ReSearch(re, text) == ReSearchFrom(re, text, 1)

\* text.match(re) with the g flag: the matched substrings, left to right
RECURSIVE ReMatchAllFrom(_, _, _)

ReMatchAllNext(re, text, m) ==
    IF ~m.found THEN <<>>
    ELSE <<SubSeq(text, m.from, m.to - 1)>> \o
         ReMatchAllFrom(re, text, IF m.to > m.from THEN m.to ELSE m.to + 1)

ReMatchAllFrom(re, text, from) == ReMatchAllNext(re, text, ReSearchFrom(re, text, from))

ReMatchAll(re, text) == ReMatchAllFrom(re, text, 1)

\* the text of capture group g of a match ("" when the group did not take part)
Group(text, m, g) == SubSeq(text, m.caps[g][1], m.caps[g][2] - 1)

----------------------------------------------------------------------------
(* JavaScript numbers of the running averages: an exact non-negative       *)
(* fraction n/d, or NaN (0/0) / Infinity (1/0) as produced by a division   *)
(* by zero.                                                                *)

Frac(n, d) == LET g == Gcd(n, d) IN [n |-> n \div g, d |-> d \div g]

Zero == [n |-> 0, d |-> 1]

NaN == [n |-> 0, d |-> 0]

Infinity == [n |-> 1, d |-> 0]

IsFinite(x) == x.d # 0

\* ((oldAvg * oldCount) + time) / newCount, in IEEE arithmetic
RunningAverage(oldAvg, oldCount, time, newCount) ==
    LET product == IF oldAvg = NaN THEN NaN
                   ELSE IF oldAvg = Infinity
                        THEN (IF oldCount = 0 THEN NaN ELSE Infinity)
                        ELSE Frac(oldAvg.n * oldCount, oldAvg.d)
        sum == IF IsFinite(product)
               THEN Frac(product.n + time * product.d, product.d)
               ELSE product
    IN  IF ~IsFinite(sum) THEN sum
        ELSE IF newCount = 0
             THEN (IF sum.n = 0 THEN NaN ELSE Infinity)
             ELSE Frac(sum.n, sum.d * newCount)

----------------------------------------------------------------------------
(* Documents and images *)

\* declared MIME types, as <<type, subtype>> of "type/subtype"
MimeTypes == { <<"application", "pdf">>, <<"image", "png">>,
               <<"image", "jpeg">>, <<"application", "json">>,
               <<"text", "plain">> }

IsPdf(mime) == mime = <<"application", "pdf">>

\* mimeType.startsWith('image/')
IsImage(mime) == mime[1] = "image"

targetWidth == 2480

targetHeight == 3508

\* an encoded image: the page it was rasterized from, the enhancement
\* operations applied to it so far, and its decoded dimensions
RawBuffer(page) ==
    [page |-> page, ops |-> <<>>, width |-> RawWidth, height |-> RawHeight]

\* Jimp.read(buffer).width / .height
getImageSize(buffer) == [width |-> buffer.width, height |-> buffer.height]

EnhanceOps == <<"deskew", "contrast", "denoise", "resize">>

deskewImage(buffer) == [buffer EXCEPT !.ops = Append(@, "deskew")]

optimizeContrast(buffer) == [buffer EXCEPT !.ops = Append(@, "contrast")]

reduceNoise(buffer) == [buffer EXCEPT !.ops = Append(@, "denoise")]

standardizeResolution(buffer) ==
    [buffer EXCEPT !.ops = Append(@, "resize"),
                   !.width = targetWidth, !.height = targetHeight]

\* the k-th enhancement step of enhanceImage
EnhanceStep(k, buffer) ==
    CASE k = 1 -> deskewImage(buffer)
      [] k = 2 -> optimizeContrast(buffer)
      [] k = 3 -> reduceNoise(buffer)
      [] k = 4 -> standardizeResolution(buffer)

\* processImageBuffer / the record pushed by convertPdfToImages
ProcessedImage(buffer, pageNumber) ==
    [imageBuffer |-> buffer, width |-> getImageSize(buffer).width,
     height |-> getImageSize(buffer).height, pageNumber |-> pageNumber]

----------------------------------------------------------------------------
(* Preprocessor *)

PreIdle ==
    [pc |-> "idle", mime |-> <<"", "">>, images |-> <<>>, pageNumber |-> 0,
     rasterLog |-> <<>>, enh |-> <<>>, finished |-> <<>>, result |-> <<>>,
     error |-> "none", calls |-> 0]

\* outcomes of one pass through the body of the conversion loop:
\*   ok         convert returned a path, the file was read, decoded, deleted
\*   throw      convert(pageNumber) threw
\*   nodata     convert returned no result or no path
\*   readfail   the file could not be read or decoded (before the push)
\*   unlinkfail the temporary file could not be deleted (after the push)
RasterOutcomes == {"ok", "throw", "nodata", "readfail", "unlinkfail"}

\* processDocumentStart without the final else: any non-PDF is taken as an image
processDocumentStartNoReject(mime, calls) ==
    IF IsPdf(mime)
    THEN [PreIdle EXCEPT !.pc = "convert", !.mime = mime, !.pageNumber = 1,
                         !.calls = calls]
    ELSE [PreIdle EXCEPT !.pc = "imagebuf", !.mime = mime, !.calls = calls]

\* the synchronous start of processDocument: the MIME dispatch
processDocumentStart(mime, calls) ==
    IF IsPdf(mime)
    THEN [PreIdle EXCEPT !.pc = "convert", !.mime = mime, !.pageNumber = 1,
                         !.calls = calls]
    ELSE IF IsImage(mime)
    THEN [PreIdle EXCEPT !.pc = "imagebuf", !.mime = mime, !.calls = calls]
    ELSE [PreIdle EXCEPT !.pc = "threw", !.mime = mime,
                         !.error = "Unsupported file type", !.calls = calls]

\* convertPdfPage with the loop skipping a page that returned no data
\* instead of leaving the loop
convertPdfPageSkipNoData(images, pageNumber, outcome) ==
    [images |-> IF outcome \in {"ok", "unlinkfail"}
                THEN Append(images, ProcessedImage(RawBuffer(pageNumber), pageNumber))
                ELSE images,
     pageNumber |-> IF outcome \in {"ok", "nodata"} THEN pageNumber + 1 ELSE pageNumber,
     continue |-> outcome \in {"ok", "nodata"}]

\* the pages pushed so far, and whether the loop goes on, after one pass
\* of the conversion loop with the given outcome
convertPdfPage(images, pageNumber, outcome) ==
    [images |-> IF outcome \in {"ok", "unlinkfail"}
                THEN Append(images, ProcessedImage(RawBuffer(pageNumber), pageNumber))
                ELSE images,
     pageNumber |-> IF outcome = "ok" THEN pageNumber + 1 ELSE pageNumber,
     continue |-> outcome = "ok"]

\* the per-page enhancement tasks started by processedImages.map(enhanceImage)
StartEnhance(images) ==
    [i \in 1..Len(images) |->
        [step |-> 1, buffer |-> images[i].imageBuffer, out |-> images[i],
         failedAt |-> 0]]

\* a direct call of Preprocessor.processDocument
PreCall(mime) ==
    /\ pre.pc \in {"idle", "returned", "threw"}
    /\ pre.calls < MaxPreCalls
    /\ pre' = processDocumentStart(mime, pre.calls + 1)
    /\ UNCHANGED preMetrics

\* one pass of the while(true) loop of convertPdfToImages
PreConvertPage ==
    /\ pre.pc = "convert"
    /\ \E outcome \in RasterOutcomes :
          /\ pre.pageNumber > MaxPages => outcome \notin {"ok", "unlinkfail"}
          /\ LET r == convertPdfPage(pre.images, pre.pageNumber, outcome)
             IN  pre' = [pre EXCEPT
                    !.rasterLog = Append(@, [page |-> pre.pageNumber,
                                             outcome |-> outcome]),
                    !.images = r.images,
                    !.pageNumber = r.pageNumber,
                    !.pc = IF r.continue THEN "convert" ELSE "enhance",
                    !.enh = IF r.continue THEN <<>> ELSE StartEnhance(r.images)]
    /\ UNCHANGED preMetrics

\* processImageBuffer(fileBuffer, 1) of a single-image document
PreImageBuffer ==
    /\ pre.pc = "imagebuf"
    /\ \E decodes \in BOOLEAN :
          pre' = IF decodes
                 THEN LET imgs == <<ProcessedImage(RawBuffer(1), 1)>>
                      IN  [pre EXCEPT !.images = imgs, !.pc = "enhance",
                                      !.enh = StartEnhance(imgs)]
                 ELSE [pre EXCEPT !.pc = "threw",
                                  !.error = "Could not read image"]
    /\ UNCHANGED preMetrics

\* enhanceImageStep with one catch block per operation: a failing
\* operation is skipped and the next one runs on its input
enhanceImageStepCatchEach(task, original, succeeds) ==
    IF task.step <= 4
    THEN [task EXCEPT !.step = @ + 1,
                      !.buffer = IF succeeds THEN EnhanceStep(task.step, task.buffer)
                                 ELSE task.buffer,
                      !.failedAt = IF succeeds THEN @ ELSE task.step]
    ELSE IF ~succeeds
    THEN [task EXCEPT !.step = 6, !.out = original, !.failedAt = task.step]
    ELSE [task EXCEPT !.step = 6,
                      !.out = [original EXCEPT
                                 !.imageBuffer = task.buffer,
                                 !.width = getImageSize(task.buffer).width,
                                 !.height = getImageSize(task.buffer).height]]

\* the state of one enhanceImage task after its next await, which
\* either succeeds or throws into the task's single catch block.
\* Steps 1..4 are the four operations, step 5 is getImageSize, 6 is done;
\* failedAt remembers the step that threw (0: none).
enhanceImageStep(task, original, succeeds) ==
    IF ~succeeds
    THEN [task EXCEPT !.step = 6, !.out = original, !.failedAt = task.step]
    ELSE IF task.step <= 4
    THEN [task EXCEPT !.step = @ + 1,
                      !.buffer = EnhanceStep(task.step, task.buffer)]
    ELSE [task EXCEPT !.step = 6,
                      !.out = [original EXCEPT
                                 !.imageBuffer = task.buffer,
                                 !.width = getImageSize(task.buffer).width,
                                 !.height = getImageSize(task.buffer).height]]

\* one await of the enhanceImage task of page i
PreEnhanceStep(i) ==
    /\ pre.pc = "enhance"
    /\ i \in DOMAIN pre.enh
    /\ pre.enh[i].step <= 5
    /\ \E succeeds \in BOOLEAN :
          LET task == enhanceImageStep(pre.enh[i], pre.images[i], succeeds)
          IN  pre' = [pre EXCEPT !.enh[i] = task,
                                 !.finished = IF task.step = 6 THEN Append(@, i) ELSE @]
    \* this.metrics.enhancementOperations += 4, after the fourth step
    /\ preMetrics' = IF pre.enh[i].step = 4 /\ pre'.enh[i].step = 5
                     THEN [preMetrics EXCEPT !.enhancementOperations = @ + 4]
                     ELSE preMetrics

updateMetrics(metrics, imagesProcessed, processingTime) ==
    LET newCount == metrics.totalProcessed + imagesProcessed
    IN  [metrics EXCEPT
            !.totalProcessed = newCount,
            !.averageProcessingTime =
                RunningAverage(metrics.averageProcessingTime,
                               newCount - imagesProcessed, processingTime, newCount)]

\* the outcomes of the tasks in the order in which they finished
settledInCompletionOrder(enh, finished) ==
    [k \in 1..Len(finished) |-> enh[finished[k]].out]

\* Promise.all(processedImages.map(...)): the outcomes of the tasks in the
\* order of the pages, whatever the order in which the tasks finished
settled(enh, finished) == [i \in DOMAIN enh |-> enh[i].out]

\* Promise.all has resolved: update the metrics and return
PreReturn ==
    /\ pre.pc = "enhance"
    /\ \A i \in DOMAIN pre.enh : pre.enh[i].step = 6
    /\ \E processingTime \in 0..MaxTime :
          LET enhanced == settled(pre.enh, pre.finished)
          IN  /\ preMetrics' = updateMetrics(preMetrics, Len(enhanced), processingTime)
              /\ pre' = [pre EXCEPT !.pc = "returned", !.result = enhanced]

InitPreMetrics ==
    [totalProcessed |-> 0, averageProcessingTime |-> Zero,
     enhancementOperations |-> 0]

----------------------------------------------------------------------------
(* Extractor: the pure parsing functions *)

Undefined == <<"UNDEFINED">>      \* a property that is absent (paymentDetails: {})

Issue(msg) == [msg |-> msg, arg |-> <<>>]

IssueAbout(msg, arg) == [msg |-> msg, arg |-> arg]

EmptyPaymentDetails ==
    [cardType |-> <<>>, cardNumber |-> <<>>, expiryDate |-> <<>>, cvv |-> <<>>,
     cardholderName |-> <<>>]

EmptyFields ==
    [donorName |-> <<>>, email |-> <<>>, phone |-> <<>>, address |-> <<>>,
     amount |-> 0, paymentMethod |-> <<>>, paymentDetails |-> EmptyPaymentDetails,
     date |-> <<>>, recurring |-> FALSE, anonymous |-> FALSE]

\* /^[^\s@]+@[^\s@]+\.[^\s@]+$/
emailRegex ==
    Cat(<<Bol, Plus(NotIn(Spaces \cup {"@"})), In({"@"}),
          Plus(NotIn(Spaces \cup {"@"})), In({"."}),
          Plus(NotIn(Spaces \cup {"@"})), Eol>>)

isValidEmail(email) == ReSearch(emailRegex, email).found

\* /\$(\d{1,3}(?:,\d{3})*)/g
amountRegex ==
    Cat(<<In({"$"}),
          Grp(1, Cat(<<Rep(Digit, 1, 3), Star(Cat(<<In({","}), Rep(Digit, 3, 3)>>))>>))>>)

minDonation == 25

maxDonation == 25000

\* parseInt of each match without its "$" and ","
amountsOf(amountMatches) ==
    [i \in 1..Len(amountMatches) |->
        parseInt(DropChars(amountMatches[i], {"$", ","}))]

\* the first amount within the donation band, 0 when there is none
firstValidAmount(amounts) ==
    IF \A i \in 1..Len(amounts) : amounts[i] < minDonation \/ amounts[i] > maxDonation
    THEN 0
    ELSE amounts[MinOf({i \in 1..Len(amounts) :
                           amounts[i] >= minDonation /\ amounts[i] <= maxDonation})]

extractAmount(text) == firstValidAmount(amountsOf(ReMatchAll(amountRegex, text)))

\* /Date[:\s]*(\d{1,2})[\/\-](\d{1,2})[\/\-](\d{4})/i
dateRegex ==
    Cat(<<LitI(<<"D", "a", "t", "e">>), Star(In(Spaces \cup {":"})),
          Grp(1, Rep(Digit, 1, 2)), In({"/", "-"}),
          Grp(2, Rep(Digit, 1, 2)), In({"/", "-"}),
          Grp(3, Rep(Digit, 4, 4))>>)

\* `${year}-${month}-${day}` of a match, Undefined (null) without one
dateOfMatch(text, dateMatch) ==
    IF dateMatch.found
    THEN Group(text, dateMatch, 3) \o <<"-">> \o padStart2(Group(text, dateMatch, 2))
         \o <<"-">> \o padStart2(Group(text, dateMatch, 1))
    ELSE Undefined

\* the date as YYYY-MM-DD, or Undefined (null) when the text has no date
extractDate(text) == dateOfMatch(text, ReSearch(dateRegex, text))

\* /(\d{4}\s*\d{4}\s*\d{4}\s*\d{4}|\d{16})/
cardDigitsRegex ==
    Alt(<<Cat(<<Rep(Digit, 4, 4), Star(Space), Rep(Digit, 4, 4), Star(Space),
                Rep(Digit, 4, 4), Star(Space), Rep(Digit, 4, 4)>>),
          Rep(Digit, 16, 16)>>)

masterRangeLow == 2221

masterRangeHigh == 2720

\* the brand of one card number by its leading digits ("" when none)
cardTypeByPrefix(cleanNumber) ==
    LET first4 == parseInt(SubSeq(cleanNumber, 1, 4))
    IN  IF startsWith(cleanNumber, <<"4">>) THEN <<"V", "i", "s", "a">>
        ELSE IF startsWith(cleanNumber, <<"5">>) \/
                (startsWith(cleanNumber, <<"2">>) /\ first4 >= masterRangeLow
                                                   /\ first4 <= masterRangeHigh)
        THEN <<"M", "a", "s", "t", "e", "r", "c", "a", "r", "d">>
        ELSE IF startsWith(cleanNumber, <<"3", "4">>) \/ startsWith(cleanNumber, <<"3", "7">>)
        THEN <<"A", "m", "e", "r", "i", "c", "a", "n", " ", "E", "x", "p", "r", "e", "s", "s">>
        ELSE IF startsWith(cleanNumber, <<"6">>) THEN <<"D", "i", "s", "c", "o", "v", "e", "r">>
        ELSE <<>>

\* the first card number of the list that has a known prefix decides
RECURSIVE firstCardTypeByPrefix(_)
firstCardTypeByPrefix(numbers) ==
    IF numbers = <<>> THEN <<>>
    ELSE LET t == cardTypeByPrefix(DropChars(Head(numbers), Spaces))
         IN  IF t # <<>> THEN t ELSE firstCardTypeByPrefix(Tail(numbers))

\* the last resort of detectCreditCardType: the card number patterns
cardTypeByNumber(byNumber) ==
    IF byNumber # <<>>
    THEN [cardType |-> byNumber, confidence |-> Frac(8, 10)]
    ELSE [cardType |-> <<>>, confidence |-> Zero]

cardTypeByKeyword(ocrText, lowerText) ==
    IF (includes(lowerText, <<"v", "i", "s", "a">>) \/ includes(lowerText, <<"CHECK">> \o <<"v", "i", "s", "a">>)
            \/ includes(lowerText, <<"x", "v", "i", "s", "a">>))
       /\ ~includes(lowerText, <<"d", "i", "s", "c", "o", "v", "e", "r">>)
    THEN [cardType |-> <<"V", "i", "s", "a">>, confidence |-> Frac(9, 10)]
    ELSE IF includes(lowerText, <<"m", "a", "s", "t", "e", "r">>) \/ includes(lowerText, <<"m", "/", "c">>)
            \/ includes(lowerText, <<"CHECK">> \o <<"m", "/", "c">>)
    THEN [cardType |-> <<"M", "a", "s", "t", "e", "r", "c", "a", "r", "d">>, confidence |-> Frac(9, 10)]
    ELSE IF includes(lowerText, <<"a", "m", "e", "r", "i", "c", "a", "n", " ", "e", "x", "p", "r", "e", "s", "s">>) \/ includes(lowerText, <<"a", "m", "e", "x">>)
            \/ includes(lowerText, <<"a", "m", " ", "e", "x", "p">>) \/ includes(lowerText, <<"a", "m", "/", "e", "x", "p">>)
            \/ includes(lowerText, <<"CHECK">> \o <<"a", "m", "/", "e", "x", "p">>)
    THEN [cardType |-> <<"A", "m", "e", "r", "i", "c", "a", "n", " ", "E", "x", "p", "r", "e", "s", "s">>, confidence |-> Frac(9, 10)]
    ELSE IF includes(lowerText, <<"d", "i", "s", "c", "o", "v", "e", "r">>) \/ includes(lowerText, <<"d", "i", "s", "c">>)
            \/ includes(lowerText, <<"CHECK">> \o <<"d", "i", "s", "c">>)
    THEN [cardType |-> <<"D", "i", "s", "c", "o", "v", "e", "r">>, confidence |-> Frac(9, 10)]
    ELSE cardTypeByNumber(firstCardTypeByPrefix(ReMatchAll(cardDigitsRegex, ocrText)))

detectCreditCardType(ocrText) == cardTypeByKeyword(ocrText, toLowerCase(ocrText))

\* /(?:Account No|Credit Card number)[:\s]*(\d{4}\s*\d{4}\s*\d{4}\s*\d{4}|\d{16})/i
cardNumberRegex ==
    Cat(<<Alt(<<LitI(<<"A", "c", "c", "o", "u", "n", "t", " ", "N", "o">>), LitI(<<"C", "r", "e", "d", "i", "t", " ", "C", "a", "r", "d", " ", "n", "u", "m", "b", "e", "r">>)>>),
          Star(In(Spaces \cup {":"})), Grp(1, cardDigitsRegex)>>)

\* /(?:Expires on|Exp date)[:\s]*(\d{1,2})[\/\-](\d{2,4})/i
expiryRegex ==
    Cat(<<Alt(<<LitI(<<"E", "x", "p", "i", "r", "e", "s", " ", "o", "n">>), LitI(<<"E", "x", "p", " ", "d", "a", "t", "e">>)>>),
          Star(In(Spaces \cup {":"})), Grp(1, Rep(Digit, 1, 2)), In({"/", "-"}),
          Grp(2, Rep(Digit, 2, 4))>>)

\* /(?:Card Verification|CVN|CVV|Verification code)[:\s#]*(\d{3,4})/i
cvvRegex ==
    Cat(<<Alt(<<LitI(<<"C", "a", "r", "d", " ", "V", "e", "r", "i", "f", "i", "c", "a", "t", "i", "o", "n">>), LitI(<<"C", "V", "N">>),
                LitI(<<"C", "V", "V">>), LitI(<<"V", "e", "r", "i", "f", "i", "c", "a", "t", "i", "o", "n", " ", "c", "o", "d", "e">>)>>),
          Star(In(Spaces \cup {":", "#"})), Grp(1, Rep(Digit, 3, 4))>>)

\* /Signature[:\s]*([A-Za-z\s]+)/i
signatureRegex ==
    Cat(<<LitI(<<"S", "i", "g", "n", "a", "t", "u", "r", "e">>), Star(In(Spaces \cup {":"})),
          Grp(1, Plus(In(Letters \cup Spaces)))>>)

\* expiryMatch[2].length === 2 ? `20${expiryMatch[2]}` : expiryMatch[2]
expiryYear(y) == IF Len(y) = 2 THEN <<"2", "0">> \o y ELSE y

\* year.slice(-2)
lastTwoDigits(year) == SubSeq(year, Len(year) - 1, Len(year))

\* `${month}/${year % 100}` of an expiry match
expiryOfMatch(text, expiryMatch) ==
    IF expiryMatch.found
    THEN padStart2(Group(text, expiryMatch, 1)) \o <<"/">>
         \o lastTwoDigits(expiryYear(Group(text, expiryMatch, 2)))
    ELSE <<>>

cardNumberOfMatch(text, cardNumberMatch) ==
    IF cardNumberMatch.found THEN DropChars(Group(text, cardNumberMatch, 1), Spaces)
    ELSE <<>>

cvvOfMatch(text, cvvMatch) ==
    IF cvvMatch.found THEN Group(text, cvvMatch, 1) ELSE <<>>

cardholderOfMatch(text, signatureMatch) ==
    IF signatureMatch.found THEN trim(Group(text, signatureMatch, 1)) ELSE <<>>

\* the card details read after a card type was detected
cardDetails(text, cardType) ==
    [cardType |-> cardType,
     cardNumber |-> cardNumberOfMatch(text, ReSearch(cardNumberRegex, text)),
     expiryDate |-> expiryOfMatch(text, ReSearch(expiryRegex, text)),
     cvv |-> cvvOfMatch(text, ReSearch(cvvRegex, text)),
     cardholderName |-> cardholderOfMatch(text, ReSearch(signatureRegex, text))]

\* extractPaymentInfo, were a detected card type to come before cash and check
paymentInfoCardFirst(text, lowerText, cardTypeDetection) ==
    IF cardTypeDetection.cardType # <<>>
    THEN [paymentMethod |-> <<"C", "r", "e", "d", "i", "t", " ", "C", "a", "r", "d", " ", "(">> \o cardTypeDetection.cardType \o <<")">>,
          paymentDetails |-> cardDetails(text, cardTypeDetection.cardType)]
    ELSE IF includes(lowerText, <<"c", "a", "s", "h">>)
            /\ (includes(text, <<"X">>) \/ includes(text, <<"CHECK">>))
    THEN [paymentMethod |-> <<"C", "a", "s", "h">>, paymentDetails |-> EmptyPaymentDetails]
    ELSE IF includes(lowerText, <<"c", "h", "e", "c", "k">>)
    THEN [paymentMethod |-> <<"C", "h", "e", "c", "k">>, paymentDetails |-> EmptyPaymentDetails]
    ELSE [paymentMethod |-> <<"U", "n", "k", "n", "o", "w", "n">>, paymentDetails |-> EmptyPaymentDetails]

paymentInfoOf(text, lowerText, cardTypeDetection) ==
    IF includes(lowerText, <<"c", "a", "s", "h">>)
       /\ (includes(text, <<"X">>) \/ includes(text, <<"CHECK">>))
    THEN [paymentMethod |-> <<"C", "a", "s", "h">>, paymentDetails |-> EmptyPaymentDetails]
    ELSE IF includes(lowerText, <<"c", "h", "e", "c", "k">>)
    THEN [paymentMethod |-> <<"C", "h", "e", "c", "k">>, paymentDetails |-> EmptyPaymentDetails]
    ELSE IF cardTypeDetection.cardType # <<>>
    THEN [paymentMethod |-> <<"C", "r", "e", "d", "i", "t", " ", "C", "a", "r", "d", " ", "(">> \o cardTypeDetection.cardType \o <<")">>,
          paymentDetails |-> cardDetails(text, cardTypeDetection.cardType)]
    ELSE [paymentMethod |-> <<"U", "n", "k", "n", "o", "w", "n">>, paymentDetails |-> EmptyPaymentDetails]

extractPaymentInfo(text) ==
    paymentInfoOf(text, toLowerCase(text), detectCreditCardType(text))

lowConfidence == 80

\* the issues appended by validateExtractedData
validateExtractedData(fields, issues, confidence) ==
    issues
    \o (IF fields.donorName = <<>> \/ Len(fields.donorName) < 2
        THEN <<Issue("Donor name could not be extracted clearly")>> ELSE <<>>)
    \o (IF fields.email # <<>> /\ ~isValidEmail(fields.email)
        THEN <<Issue("Email format appears incorrect")>> ELSE <<>>)
    \o (IF fields.phone = <<>>
        THEN <<Issue("Phone number could not be extracted")>> ELSE <<>>)
    \o (IF fields.amount <= 0
        THEN <<Issue("Donation amount could not be determined")>> ELSE <<>>)
    \o (IF confidence < lowConfidence
        THEN <<Issue("OCR confidence is below optimal threshold")>> ELSE <<>>)

\* /(?:Mr\.|Ms\.|First Name:|Last Name:)\s*([A-Za-z\s]+)/gi
nameRegex ==
    Cat(<<Alt(<<LitI(<<"M", "r", ".">>), LitI(<<"M", "s", ".">>),
                LitI(<<"F", "i", "r", "s", "t", " ", "N", "a", "m", "e", ":">>), LitI(<<"L", "a", "s", "t", " ", "N", "a", "m", "e", ":">>)>>),
          Star(Space), Grp(1, Plus(In(Letters \cup Spaces)))>>)

\* /First Name[:\s]*([A-Za-z\s]+)/i
firstNameRegex ==
    Cat(<<LitI(<<"F", "i", "r", "s", "t", " ", "N", "a", "m", "e">>), Star(In(Spaces \cup {":"})),
          Grp(1, Plus(In(Letters \cup Spaces)))>>)

\* /Last Name[:\s]*([A-Za-z\s]+)/i
lastNameRegex ==
    Cat(<<LitI(<<"L", "a", "s", "t", " ", "N", "a", "m", "e">>), Star(In(Spaces \cup {":"})),
          Grp(1, Plus(In(Letters \cup Spaces)))>>)

\* /(?:Mr\.|Ms\.)[:\s]*([A-Za-z\s]+)/i
fullNameRegex ==
    Cat(<<Alt(<<LitI(<<"M", "r", ".">>), LitI(<<"M", "s", ".">>)>>),
          Star(In(Spaces \cup {":"})), Grp(1, Plus(In(Letters \cup Spaces)))>>)

\* /E[-\s]?[Mm]ail[:\s]*([a-zA-Z0-9._%+-]+@[a-zA-Z0-9.-]+\.[a-zA-Z]{2,})/i
emailFieldRegex ==
    Cat(<<LitI(<<"E">>), Opt(In(Spaces \cup {"-"})), LitI(<<"m", "a", "i", "l">>),
          Star(In(Spaces \cup {":"})),
          Grp(1, Cat(<<Plus(In(Letters \cup Digits \cup {".", "_", "%", "+", "-"})),
                       In({"@"}),
                       Plus(In(Letters \cup Digits \cup {".", "-"})),
                       In({"."}), Rep(In(Letters), 2, Unbounded)>>))>>)

\* /(?:Phone|Telephone)[:\s]*\(?(\d{3})\)?[-.\s]*(\d{3})[-.\s]*(\d{4})/i
phoneRegex ==
    Cat(<<Alt(<<LitI(<<"P", "h", "o", "n", "e">>), LitI(<<"T", "e", "l", "e", "p", "h", "o", "n", "e">>)>>),
          Star(In(Spaces \cup {":"})), Opt(In({"("})), Grp(1, Rep(Digit, 3, 3)),
          Opt(In({")"})), Star(In(Spaces \cup {"-", "."})), Grp(2, Rep(Digit, 3, 3)),
          Star(In(Spaces \cup {"-", "."})), Grp(3, Rep(Digit, 4, 4))>>)

\* /Address[:\s]*([^\n]+)/i
addressRegex ==
    Cat(<<LitI(<<"A", "d", "d", "r", "e", "s", "s">>), Star(In(Spaces \cup {":"})),
          Grp(1, Plus(NotIn({"\n"})))>>)

\* /City[:\s]*([^,\n]+)[\s,]*State[:\s]*([A-Z]{2})[\s,]*Zip(?:\s*Code)?[:\s]*(\d{5})/i
cityStateZipRegex ==
    Cat(<<LitI(<<"C", "i", "t", "y">>), Star(In(Spaces \cup {":"})),
          Grp(1, Plus(NotIn({",", "\n"}))), Star(In(Spaces \cup {","})),
          LitI(<<"S", "t", "a", "t", "e">>), Star(In(Spaces \cup {":"})),
          Grp(2, Rep(In(Letters), 2, 2)), Star(In(Spaces \cup {","})),
          LitI(<<"Z", "i", "p">>), Opt(Cat(<<Star(Space), LitI(<<"C", "o", "d", "e">>)>>)),
          Star(In(Spaces \cup {":"})), Grp(3, Rep(Digit, 5, 5))>>)

donorNameOfMatches(ocrText, nameMatch, firstNameMatch, lastNameMatch, fullNameMatch) ==
    IF ~nameMatch.found THEN <<>>
    ELSE IF firstNameMatch.found /\ lastNameMatch.found
    THEN trim(Group(ocrText, firstNameMatch, 1)) \o <<" ">> \o
         trim(Group(ocrText, lastNameMatch, 1))
    ELSE IF fullNameMatch.found THEN trim(Group(ocrText, fullNameMatch, 1))
    ELSE <<>>

\* the donor name parsed from the whole-form text
parseDonorName(ocrText) ==
    donorNameOfMatches(ocrText, ReSearch(nameRegex, ocrText),
                       ReSearch(firstNameRegex, ocrText),
                       ReSearch(lastNameRegex, ocrText),
                       ReSearch(fullNameRegex, ocrText))

emailOfMatch(ocrText, emailMatch) ==
    IF emailMatch.found THEN trim(Group(ocrText, emailMatch, 1)) ELSE <<>>

\* `(${phoneMatch[1]}) ${phoneMatch[2]}-${phoneMatch[3]}`
phoneOfMatch(ocrText, phoneMatch) ==
    IF phoneMatch.found
    THEN <<"(">> \o Group(ocrText, phoneMatch, 1) \o <<")", " ">>
         \o Group(ocrText, phoneMatch, 2) \o <<"-">> \o Group(ocrText, phoneMatch, 3)
    ELSE <<>>

addressOfMatches(ocrText, addressMatch, cityStateZipMatch) ==
    IF ~addressMatch.found THEN <<>>
    ELSE IF cityStateZipMatch.found
    THEN trim(Group(ocrText, addressMatch, 1)) \o <<",", " ">>
         \o trim(Group(ocrText, cityStateZipMatch, 1))
         \o <<",", " ">> \o Group(ocrText, cityStateZipMatch, 2) \o <<" ">>
         \o Group(ocrText, cityStateZipMatch, 3)
    ELSE trim(Group(ocrText, addressMatch, 1))

parseAddress(ocrText) ==
    addressOfMatches(ocrText, ReSearch(addressRegex, ocrText),
                     ReSearch(cityStateZipRegex, ocrText))

\* if (extractedDate) fields.date = extractedDate
dateField(extractedDate) == IF extractedDate # Undefined THEN extractedDate ELSE <<>>

\* ocrText.toLowerCase().includes('monthly') && !...includes('one time')
isRecurring(lowerText) == includes(lowerText, <<"m", "o", "n", "t", "h", "l", "y">>) /\ ~includes(lowerText, <<"o", "n", "e", " ", "t", "i", "m", "e">>)

parsedFields(donorName, email, phone, address, amount, paymentInfo, date, recurring) ==
    [donorName |-> donorName, email |-> email, phone |-> phone, address |-> address,
     amount |-> amount, paymentMethod |-> paymentInfo.paymentMethod,
     paymentDetails |-> paymentInfo.paymentDetails, date |-> date,
     recurring |-> recurring, anonymous |-> FALSE]

\* the fields with the issues of their validation
validated(fields, confidence) ==
    [fields |-> fields, issues |-> validateExtractedData(fields, <<>>, confidence)]

\* parseFormText: the fields and issues read from the text of a whole form
parseFormText(ocrText, confidence) ==
    validated(parsedFields(parseDonorName(ocrText),
                           emailOfMatch(ocrText, ReSearch(emailFieldRegex, ocrText)),
                           phoneOfMatch(ocrText, ReSearch(phoneRegex, ocrText)),
                           parseAddress(ocrText),
                           extractAmount(ocrText),
                           extractPaymentInfo(ocrText),
                           dateField(extractDate(ocrText)),
                           isRecurring(toLowerCase(ocrText))),
              confidence)

\* case 'text_field' of processFieldSegment
processTextField(id, text, fields, issues) ==
    IF includes(id, <<"n", "a", "m", "e">>)
    THEN [fields |-> [fields EXCEPT !.donorName = text], issues |-> issues]
    ELSE IF includes(id, <<"e", "m", "a", "i", "l">>)
    THEN [fields |-> [fields EXCEPT !.email = text],
          issues |-> IF ~isValidEmail(text)
                     THEN Append(issues, Issue("Email format appears incorrect"))
                     ELSE issues]
    ELSE IF includes(id, <<"p", "h", "o", "n", "e">>)
    THEN [fields |-> [fields EXCEPT !.phone = text], issues |-> issues]
    ELSE IF includes(id, <<"a", "d", "d", "r", "e", "s", "s">>)
    THEN [fields |-> [fields EXCEPT !.address = text], issues |-> issues]
    ELSE [fields |-> fields, issues |-> issues]

\* if (amount > 0) fields.amount = amount
withAmount(fields, amount) ==
    IF amount > 0 THEN [fields EXCEPT !.amount = amount] ELSE fields

\* if (date) fields.date = date
withDate(fields, date) ==
    IF date # Undefined /\ date # <<>> THEN [fields EXCEPT !.date = date] ELSE fields

\* case 'checkbox' of processFieldSegment
withRecurring(fields, lowerText) ==
    IF includes(lowerText, <<"m", "o", "n", "t", "h", "l", "y">>) \/ includes(lowerText, <<"r", "e", "c", "u", "r", "r", "i", "n", "g">>)
    THEN [fields EXCEPT !.recurring = TRUE] ELSE fields

\* processFieldSegment: the fields and issues after one recognized segment
processFieldSegment(segment, text, fields, issues) ==
    CASE segment.fieldType = "text_field" ->
            processTextField(toLowerCase(segment.fieldId), text, fields, issues)
      [] segment.fieldType = "amount_field" ->
            [fields |-> withAmount(fields, extractAmount(text)), issues |-> issues]
      [] segment.fieldType = "date_field" ->
            [fields |-> withDate(fields, extractDate(text)), issues |-> issues]
      [] segment.fieldType = "checkbox" ->
            [fields |-> withRecurring(fields, toLowerCase(text)), issues |-> issues]
      [] segment.fieldType = "signature_area" ->
            [fields |-> IF trim(text) # <<>>
                        THEN [fields EXCEPT !.paymentDetails.cardholderName = text]
                        ELSE fields,
             issues |-> issues]
      [] OTHER -> [fields |-> fields, issues |-> issues]

----------------------------------------------------------------------------
(* Segmented forms, the input of the Extractor *)

FieldTypes == {"text_field", "checkbox", "signature_area", "amount_field", "date_field"}

\* the characters of a DetectedElement type
TypeName(type) ==
    CASE type = "text_field" -> <<"t", "e", "x", "t", "_", "f", "i", "e", "l", "d">>
      [] type = "checkbox" -> <<"c", "h", "e", "c", "k", "b", "o", "x">>
      [] type = "signature_area" -> <<"s", "i", "g", "n", "a", "t", "u", "r", "e", "_", "a", "r", "e", "a">>
      [] type = "amount_field" -> <<"a", "m", "o", "u", "n", "t", "_", "f", "i", "e", "l", "d">>
      [] type = "date_field" -> <<"d", "a", "t", "e", "_", "f", "i", "e", "l", "d">>

\* an image buffer, known by the text a perfect reader would find in it
Buffer(shows) == [shows |-> shows]

\* a FieldSegment (bounding box and element confidence play no part here)
FieldSegment(fieldId, fieldType, label, imageSegment) ==
    [fieldId |-> fieldId, fieldType |-> fieldType, label |-> label,
     imageSegment |-> imageSegment]

SegmentedForm(formId, pageNumber, confidence, fieldSegments) ==
    [formId |-> formId, pageNumber |-> pageNumber, confidence |-> confidence,
     fieldSegments |-> fieldSegments]

----------------------------------------------------------------------------
(* Extractor *)

\* what Tesseract answers to one recognize call: a text with a confidence
\* in percent, or an exception
OcrConfidences == {0, 90, 100}

OcrOutcomes == {[ok |-> TRUE, confidence |-> c] : c \in OcrConfidences}
               \cup {[ok |-> FALSE, confidence |-> 0]}

serverSideConfidence == 90

InitExtMetrics ==
    [totalFormsExtracted |-> 0, totalFieldsExtracted |-> 0,
     averageExtractionTime |-> Zero, extractionErrors |-> 0,
     averageConfidence |-> Zero]

\* the Extractor object: isServerSide is typeof window === 'undefined',
\* tesseractWorker is TRUE when the field holds a worker
InitExtractor(isServerSide) ==
    [isServerSide |-> isServerSide, isInitialized |-> FALSE,
     tesseractWorker |-> FALSE, metrics |-> InitExtMetrics]

\* the in-flight call of extractFormData or extractFromRealImage
ExtIdle ==
    [pc |-> "idle", op |-> "none", ret |-> "none", forms |-> <<>>,
     image |-> Buffer(<<>>), i |-> 0, s |-> 0, fields |-> EmptyFields,
     issues |-> <<>>, totalConfidence |-> 0, processedSegments |-> 0,
     ocrLog |-> <<>>, out |-> <<>>, result |-> <<>>, error |-> "none",
     calls |-> 0]

\* paymentDetails: {} of the record of a failed form
NoPaymentDetails ==
    [cardType |-> Undefined, cardNumber |-> Undefined, expiryDate |-> Undefined,
     cvv |-> Undefined, cardholderName |-> Undefined]

noSegmentsMessage == <<"No field segments available and no full form image provided">>

\* the record returned by the catch block of extractSingleFormData
FailedFormRecord(formNumber, message) ==
    [formNumber |-> formNumber, confidence |-> Zero,
     fields |-> [EmptyFields EXCEPT !.paymentDetails = NoPaymentDetails],
     issues |-> <<IssueAbout("Failed to process form", message)>>]

\* the record of extractFromFieldSegments, were the confidence averaged over
\* the failed segments too
SegmentsRecordOverAll(formNumber, fields, issues, totalConfidence, processedSegments) ==
    [formNumber |-> formNumber,
     confidence |-> IF processedSegments > 0
                    THEN Frac(totalConfidence, (processedSegments + Len(issues)) * 100)
                    ELSE Zero,
     fields |-> fields, issues |-> issues]

\* the record returned by extractFromFieldSegments after its loop
SegmentsRecord(formNumber, fields, issues, totalConfidence, processedSegments) ==
    [formNumber |-> formNumber,
     confidence |-> IF processedSegments > 0
                    THEN Frac(totalConfidence, processedSegments * 100)
                    ELSE Zero,
     fields |-> fields, issues |-> issues]

\* the record returned by extractFromRealImage
RealImageRecordOf(extractedData, confidence) ==
    [formNumber |-> 1, confidence |-> Frac(confidence, 100),
     fields |-> extractedData.fields, issues |-> extractedData.issues]

RealImageRecord(text, confidence) ==
    RealImageRecordOf(parseFormText(text, confidence), confidence)

FracSum(a, b) == Frac(a.n * b.d + b.n * a.d, a.d * b.d)

RECURSIVE SumConfidence(_)
SumConfidence(records) ==
    IF records = <<>> THEN Zero
    ELSE FracSum(Head(records).confidence, SumConfidence(Tail(records)))

fieldsPerForm == 9

\* Extractor.updateMetrics
extUpdateMetrics(metrics, extractedData, extractionTime) ==
    LET n == Len(extractedData)
        total == metrics.totalFormsExtracted + n
        sum == SumConfidence(extractedData)
    IN  [metrics EXCEPT
            !.totalFormsExtracted = total,
            !.totalFieldsExtracted = @ + n * fieldsPerForm,
            !.averageExtractionTime =
                RunningAverage(metrics.averageExtractionTime, total - n,
                               extractionTime, total),
            !.averageConfidence = IF n > 0 THEN Frac(sum.n, sum.d * n) ELSE @]

\* the synchronous start of initializeOCREngine: the object after it, and
\* whether the engine is ready or the worker has to be created first
initializeOCREngineStart(x) ==
    IF x.isInitialized /\ x.tesseractWorker
    THEN [extractor |-> x, ready |-> TRUE]
    ELSE IF x.isServerSide
    THEN [extractor |-> [x EXCEPT !.isInitialized = TRUE], ready |-> TRUE]
    ELSE [extractor |-> x, ready |-> FALSE]

\* a call enters performFullImageOCR / initializeOCREngine and runs to its
\* first await: it resumes at ret when the engine is ready, and creates
\* the worker first when it is not
EnterOCR(x, call, ret) ==
    LET start == initializeOCREngineStart(x)
    IN  [extractor |-> start.extractor,
         call |-> [call EXCEPT !.ret = ret,
                               !.pc = IF start.ready THEN ret ELSE "createWorker"]]

\* the synchronous start of extractFormData: the environment guard, then
\* initializeOCREngine inside the try block
extractFormDataStart(x, call, forms) ==
    IF x.isServerSide
    THEN [extractor |-> x,
          call |-> [ExtIdle EXCEPT
                      !.pc = "threw", !.op = "extractFormData", !.forms = forms,
                      !.error = "OCR extraction only available in browser environment",
                      !.calls = call.calls + 1]]
    ELSE EnterOCR(x, [ExtIdle EXCEPT !.op = "extractFormData", !.forms = forms,
                                     !.i = 1, !.calls = call.calls + 1], "form")

\* the synchronous start of extractFromRealImage
extractFromRealImageStart(x, call, image) ==
    EnterOCR(x, [ExtIdle EXCEPT !.op = "extractFromRealImage", !.image = image,
                                !.calls = call.calls + 1], "fullimage")

\* the result of performFullImageOCR once the engine is ready
performFullImageOCR(x, image, outcome) ==
    IF x.isServerSide
    THEN [ok |-> outcome.ok, text |-> image.shows, confidence |-> serverSideConfidence]
    ELSE IF ~x.tesseractWorker
    THEN [ok |-> FALSE, text |-> <<>>, confidence |-> 0]
    ELSE [ok |-> outcome.ok, text |-> image.shows, confidence |-> outcome.confidence]

\* the output list after a form without field segments, were it left out
emptyFormDropped(out, formNumber) == out

\* the output list after a form without field segments: the throw of
\* extractSingleFormData is caught and a failed record is pushed
emptyFormOutcome(out, formNumber) ==
    Append(out, FailedFormRecord(formNumber, noSegmentsMessage))

\* the loop of extractFromFieldSegments after segment s was dealt with:
\* the next segment, or the record of the form and the next form
afterSegment(x, call) ==
    IF call.s < Len(call.forms[call.i].fieldSegments)
    THEN EnterOCR(x, [call EXCEPT !.s = @ + 1], "recognize")
    ELSE [extractor |-> x,
          call |-> [call EXCEPT
                      !.out = Append(@, SegmentsRecord(call.i, call.fields, call.issues,
                                                       call.totalConfidence,
                                                       call.processedSegments)),
                      !.i = @ + 1, !.s = 0, !.pc = "form", !.fields = EmptyFields,
                      !.issues = <<>>, !.totalConfidence = 0,
                      !.processedSegments = 0]]

\* a failing segment, were its exception to leave extractFormData
segmentFailedAborts(x, call) ==
    [extractor |-> [x EXCEPT !.metrics.extractionErrors = @ + 1],
     call |-> [call EXCEPT !.pc = "threw", !.error = "Real OCR extraction failed"]]

\* the catch block of the segment loop: an issue, and the loop goes on
segmentFailed(x, call) ==
    afterSegment(x, [call EXCEPT !.issues =
        Append(@, IssueAbout("Failed to process field",
                  <<call.forms[call.i].fieldSegments[call.s].fieldType>>
                  \o call.forms[call.i].fieldSegments[call.s].fieldId))])

\* the call after processFieldSegment has run on a recognized text
segmentProcessed(call, text, confidence, after) ==
    [call EXCEPT !.totalConfidence = @ + confidence,
                 !.processedSegments = @ + 1,
                 !.ocrLog = Append(@, [form |-> call.i, s |-> call.s, text |-> text,
                                       confidence |-> confidence]),
                 !.fields = after.fields, !.issues = after.issues]

\* the body of the segment loop after a successful recognition of text
segmentReadText(x, call, text, confidence) ==
    afterSegment(x, segmentProcessed(call, text, confidence,
        processFieldSegment(call.forms[call.i].fieldSegments[call.s], text,
                            call.fields, call.issues)))

segmentRead(x, call, ocrResult) ==
    segmentReadText(x, call, trim(ocrResult.text), ocrResult.confidence)

\* initializeOCREngine threw: the catch block of the caller that awaited it
initFailed(x, call) ==
    CASE call.ret = "form" ->
            [extractor |-> [x EXCEPT !.metrics.extractionErrors = @ + 1],
             call |-> [call EXCEPT !.pc = "threw",
                                   !.error = "Real OCR extraction failed"]]
      [] call.ret = "fullimage" ->
            [extractor |-> [x EXCEPT !.metrics.extractionErrors = @ + 1],
             call |-> [call EXCEPT !.pc = "threw",
                                   !.error = "Real image extraction failed"]]
      [] call.ret = "recognize" -> segmentFailed(x, call)

ExtDone == {"idle", "returned", "threw"}

\* the Extractor object and its call become those of r
ExtBecomes(r) == ext' = r.call /\ extractor' = r.extractor

\* extractor.extractFormData(forms) is called
ExtStartFormData(forms) ==
    /\ ext.pc \in ExtDone
    /\ ExtBecomes(extractFormDataStart(extractor, ext, forms))

\* extractor.extractFromRealImage(image) is called
ExtStartRealImage(image) ==
    /\ ext.pc \in ExtDone
    /\ ExtBecomes(extractFromRealImageStart(extractor, ext, image))

\* await createWorker('eng')
ExtCreateWorker ==
    /\ ext.pc = "createWorker"
    /\ \E ok \in BOOLEAN :
          ExtBecomes(IF ok
                     THEN [extractor |-> [extractor EXCEPT !.tesseractWorker = TRUE],
                           call |-> [ext EXCEPT !.pc = "configure"]]
                     ELSE initFailed(extractor, ext))

\* await load(), reinitialize('eng'), setParameters(...)
ExtConfigureWorker ==
    /\ ext.pc = "configure"
    /\ \E ok \in BOOLEAN :
          ExtBecomes(IF ok
                     THEN [extractor |-> [extractor EXCEPT !.isInitialized = TRUE],
                           call |-> [ext EXCEPT !.pc = ext.ret]]
                     ELSE initFailed(extractor, ext))

\* the head of the loop of extractFormData and the synchronous start of
\* extractSingleFormData for the next form
ExtNextForm ==
    /\ ext.pc = "form"
    /\ ext.i <= Len(ext.forms)
    /\ ExtBecomes(IF Len(ext.forms[ext.i].fieldSegments) > 0
                  THEN EnterOCR(extractor, [ext EXCEPT !.s = 1], "recognize")
                  ELSE [extractor |-> [extractor EXCEPT
                                          !.metrics.extractionErrors = @ + 1],
                        call |-> [ext EXCEPT !.out = emptyFormOutcome(@, ext.i),
                                             !.i = @ + 1]])

\* the segment loop after performFullImageOCR has answered
segmentRecognized(x, call, ocrResult) ==
    IF ocrResult.ok THEN segmentRead(x, call, ocrResult) ELSE segmentFailed(x, call)

\* await performFullImageOCR(segment.imageSegment): the recognition
ExtRecognize ==
    /\ ext.pc = "recognize"
    /\ \E outcome \in OcrOutcomes :
          ExtBecomes(segmentRecognized(extractor, ext,
              performFullImageOCR(extractor,
                  ext.forms[ext.i].fieldSegments[ext.s].imageSegment, outcome)))

\* the loop of extractFormData has ended: updateMetrics and return
ExtReturn ==
    /\ ext.pc = "form"
    /\ ext.i > Len(ext.forms)
    /\ \E extractionTime \in 0..MaxTime :
          extractor' = [extractor EXCEPT !.metrics =
                           extUpdateMetrics(@, ext.out, extractionTime)]
    /\ ext' = [ext EXCEPT !.pc = "returned", !.result = ext.out]

\* extractFromRealImage after performFullImageOCR has answered
fullImageRecognized(x, call, ocrResult) ==
    IF ocrResult.ok
    THEN [extractor |-> x,
          call |-> [call EXCEPT
                      !.pc = "returned",
                      !.ocrLog = <<[form |-> 1, s |-> 0, text |-> ocrResult.text,
                                     confidence |-> ocrResult.confidence]>>,
                      !.result = <<RealImageRecord(ocrResult.text,
                                                   ocrResult.confidence)>>]]
    ELSE [extractor |-> [x EXCEPT !.metrics.extractionErrors = @ + 1],
          call |-> [call EXCEPT !.pc = "threw",
                                !.error = "Real image extraction failed"]]

\* await performFullImageOCR(imageBuffer) of extractFromRealImage, then
\* parseFormText
ExtFullImage ==
    /\ ext.pc = "fullimage"
    /\ \E outcome \in OcrOutcomes :
          ExtBecomes(fullImageRecognized(extractor, ext,
              performFullImageOCR(extractor, ext.image, outcome)))

----------------------------------------------------------------------------
(* Detector *)

\* a DetectedElement: its type, its label ('' when it has none) and its
\* confidence
DetectedElement(type, label, confidence) ==
    [type |-> type, label |-> label, confidence |-> confidence]

FracMin(a, b) == IF a.n * b.d <= b.n * a.d THEN a ELSE b

RECURSIVE SumElementConfidence(_)
SumElementConfidence(elements) ==
    IF elements = <<>> THEN Zero
    ELSE FracSum(Head(elements).confidence, SumElementConfidence(Tail(elements)))

One == [n |-> 1, d |-> 1]

keyElementsBoost == Frac(15, 100)

elementTypesBoost == Frac(10, 100)

manyElementTypes == 3

\* the two boosts without their caps
boostedUncapped(elements, averageConfidence) ==
    LET hasKeyElements ==
            /\ \E k \in 1..Len(elements) : includes(elements[k].label, <<"n", "a", "m", "e">>)
            /\ \E k \in 1..Len(elements) : includes(elements[k].label, <<"a", "m", "o", "u", "n", "t">>)
        keyed == IF hasKeyElements
                 THEN FracSum(averageConfidence, keyElementsBoost)
                 ELSE averageConfidence
    IN  IF Cardinality({elements[k].type : k \in 1..Len(elements)}) >= manyElementTypes
        THEN FracSum(keyed, elementTypesBoost)
        ELSE keyed

\* the two boosts of calculateFormConfidence applied to the mean
boosted(elements, averageConfidence) ==
    LET hasKeyElements ==
            /\ \E k \in 1..Len(elements) : includes(elements[k].label, <<"n", "a", "m", "e">>)
            /\ \E k \in 1..Len(elements) : includes(elements[k].label, <<"a", "m", "o", "u", "n", "t">>)
        keyed == IF hasKeyElements
                 THEN FracMin(FracSum(averageConfidence, keyElementsBoost), One)
                 ELSE averageConfidence
    IN  IF Cardinality({elements[k].type : k \in 1..Len(elements)}) >= manyElementTypes
        THEN FracMin(FracSum(keyed, elementTypesBoost), One)
        ELSE keyed

calculateFormConfidence(elements) ==
    IF Len(elements) = 0 THEN Zero
    ELSE boosted(elements, Frac(SumElementConfidence(elements).n,
                                SumElementConfidence(elements).d * Len(elements)))

IsDigitAt(s, i) == i \in 1..Len(s) /\ s[i] \in Digits

IsCharAt(s, i, c) == i \in 1..Len(s) /\ s[i] = c

\* /\$\d+|\d+\.\d{2}/.test(text)
showsAmount(text) ==
    \E i \in 1..Len(text) :
        \/ text[i] = "$" /\ IsDigitAt(text, i + 1)
        \/ /\ IsDigitAt(text, i) /\ IsCharAt(text, i + 1, ".")
           /\ IsDigitAt(text, i + 2) /\ IsDigitAt(text, i + 3)

\* /\d{1,2}\/\d{1,2}\/\d{2,4}|\d{1,2}-\d{1,2}-\d{2,4}/.test(text)
showsDate(text) ==
    \E i \in 1..Len(text), separator \in {"/", "-"}, k \in 1..2 :
        /\ IsDigitAt(text, i) /\ IsCharAt(text, i + 1, separator)
        /\ \A j \in 1..k : IsDigitAt(text, i + 1 + j)
        /\ IsCharAt(text, i + 2 + k, separator)
        /\ IsDigitAt(text, i + 3 + k) /\ IsDigitAt(text, i + 4 + k)

\* Detector.classifyElementByContext
classifyElementByContext(text, currentType) ==
    LET lowerText == toLowerCase(text)
        has(part) == includes(lowerText, part)
    IN  IF has(<<"n", "a", "m", "e">>) \/ has(<<"d", "o", "n", "o", "r">>) THEN <<"d", "o", "n", "o", "r", "_", "n", "a", "m", "e">>
        ELSE IF has(<<"e", "m", "a", "i", "l">>) \/ has(<<"e", "-", "m", "a", "i", "l">>) THEN <<"e", "m", "a", "i", "l">>
        ELSE IF has(<<"p", "h", "o", "n", "e">>) \/ has(<<"t", "e", "l">>) THEN <<"p", "h", "o", "n", "e">>
        ELSE IF has(<<"a", "d", "d", "r", "e", "s", "s">>) \/ has(<<"s", "t", "r", "e", "e", "t">>) THEN <<"a", "d", "d", "r", "e", "s", "s">>
        ELSE IF has(<<"a", "m", "o", "u", "n", "t">>) \/ has(<<"$">>) \/ has(<<"d", "o", "n", "a", "t", "i", "o", "n">>) THEN <<"a", "m", "o", "u", "n", "t">>
        ELSE IF has(<<"d", "a", "t", "e">>) \/ has(<<"w", "h", "e", "n">>) THEN <<"d", "a", "t", "e">>
        ELSE IF has(<<"s", "i", "g", "n", "a", "t", "u", "r", "e">>) \/ has(<<"s", "i", "g", "n">>) THEN <<"s", "i", "g", "n", "a", "t", "u", "r", "e">>
        ELSE IF has(<<"r", "e", "c", "u", "r", "r", "i", "n", "g">>) \/ has(<<"m", "o", "n", "t", "h", "l", "y">>) THEN <<"r", "e", "c", "u", "r", "r", "i", "n", "g">>
        ELSE IF has(<<"a", "n", "o", "n", "y", "m", "o", "u", "s">>) \/ has(<<"p", "r", "i", "v", "a", "t", "e">>) THEN <<"a", "n", "o", "n", "y", "m", "o", "u", "s">>
        ELSE IF has(<<"c", "r", "e", "d", "i", "t">>) \/ has(<<"c", "a", "r", "d">>) THEN <<"p", "a", "y", "m", "e", "n", "t", "_", "c", "r", "e", "d", "i", "t", "_", "c", "a", "r", "d">>
        ELSE IF has(<<"c", "h", "e", "c", "k">>) \/ has(<<"c", "h", "e", "q", "u", "e">>) THEN <<"p", "a", "y", "m", "e", "n", "t", "_", "c", "h", "e", "c", "k">>
        ELSE <<"u", "n", "k", "n", "o", "w", "n", "_">> \o TypeName(currentType)

\* Detector.refineElementType
refineElementType(text, currentType) ==
    LET lowerText == toLowerCase(text)
    IN  IF showsAmount(text) THEN "amount_field"
        ELSE IF showsDate(text) THEN "date_field"
        ELSE IF includes(lowerText, <<"s", "i", "g", "n", "a", "t", "u", "r", "e">>) \/ includes(lowerText, <<"s", "i", "g", "n", " ", "h", "e", "r", "e">>)
             THEN "signature_area"
        ELSE currentType

\* the confidence of an element near which words were read
confidenceWithText(element, refinedType) ==
    LET reduced == IF refinedType # element.type
                   THEN Frac(element.confidence.n * 9, element.confidence.d * 10)
                   ELSE element.confidence
    IN  FracMin(FracSum(reduced, Frac(1, 10)), One)

\* Detector.enhanceElementsWithOCR. nearby[k] is what the words near element
\* k read joined by spaces, Undefined when no word is near it; recognizes is
\* FALSE when there is no worker or recognize throws
enhanceElementsWithOCR(elements, nearby, recognizes) ==
    IF ~recognizes THEN elements
    ELSE [k \in 1..Len(elements) |->
            IF nearby[k] = Undefined THEN elements[k]
            ELSE LET text == trim(nearby[k])
                     refinedType == refineElementType(text, elements[k].type)
                 IN  DetectedElement(refinedType,
                                     classifyElementByContext(text, elements[k].type),
                                     confidenceWithText(elements[k], refinedType))]

\* formId of the i-th form detected on a page
formId(pageNumber, i) ==
    <<"f", "o", "r", "m", "_">> \o NatToString(pageNumber) \o <<"_">> \o NatToString(i)

\* the DetectedForm built for the i-th region found on a page; a region is
\* what the page shows there and the elements found in it
DetectedForm(pageNumber, i, region) ==
    [formId |-> formId(pageNumber, i), pageNumber |-> pageNumber,
     confidence |-> calculateFormConfidence(region.elements),
     imageBuffer |-> Buffer(region.shows), detectedElements |-> region.elements]

\* The analysis of one page.  An outcome names the regions that are kept
\* when nothing throws, the point at which an exception is raised (if any)
\* and, for a point inside the work on one region, the index k of that
\* region among them:
\*   bufferToMat   cv.matFromArray throws: nothing is allocated yet
\*   cvtColor      the first cv call of findFormRegionsCV throws
\*   findContours  the last cv call before the loop of findFormRegionsCV throws
\*   likelihood    cv.cvtColor of assessFormLikelihood throws for candidate k
\*   roi           mat.roi of extractFormRegion throws for region k
\*   matToBuffer   matToBuffer(formMat) throws for region k
\*   elements      cv.cvtColor of detectElementsInFormCV throws for region k
PagePoints == {"bufferToMat", "cvtColor", "findContours"}

RegionPoints == {"likelihood", "roi", "matToBuffer", "elements"}

PageOutcome(regions, at, k) == [regions |-> regions, at |-> at, k |-> k]

\* the exception reaches the catch block of detectFormsInImage
escapes(outcome) == outcome.at \in {"bufferToMat", "roi", "matToBuffer"}

RemoveAt(s, k) == SubSeq(s, 1, k - 1) \o SubSeq(s, k + 1, Len(s))

\* findFormRegionsCV: its catch block returns no region; a candidate whose
\* assessFormLikelihood threw scores 0 and is not kept
findFormRegionsCV(outcome) ==
    IF outcome.at \in {"cvtColor", "findContours"} THEN <<>>
    ELSE IF outcome.at = "likelihood" THEN RemoveAt(outcome.regions, outcome.k)
    ELSE outcome.regions

\* detectElementsInFormCV of the i-th region: its catch block returns []
detectElementsInFormCV(outcome, i) ==
    IF outcome.at = "elements" /\ outcome.k = i THEN <<>>
    ELSE findFormRegionsCV(outcome)[i].elements

\* detectFormsInImage: the forms of the regions found on the page, or none
\* when an exception reached its catch block
detectFormsInImage(image, outcome) ==
    IF escapes(outcome) THEN <<>>
    ELSE <<>> \o [i \in 1..Len(findFormRegionsCV(outcome)) |->
                     DetectedForm(image.pageNumber, i,
                         [shows |-> findFormRegionsCV(outcome)[i].shows,
                          elements |-> detectElementsInFormCV(outcome, i)])]

\* the native matrices allocated by detectFormsInImage and not deleted
\* when it returns
liveMats(outcome) ==
    CASE outcome.at = "none" -> {}
      [] outcome.at = "bufferToMat" -> {}
      [] outcome.at = "cvtColor" -> {"findFormRegionsCV.gray"}
      [] outcome.at = "findContours" ->
            {"findFormRegionsCV.gray", "findFormRegionsCV.blurred",
             "findFormRegionsCV.thresh", "findFormRegionsCV.contours",
             "findFormRegionsCV.hierarchy"}
      [] outcome.at = "likelihood" ->
            {"assessFormLikelihood.roi", "assessFormLikelihood.gray"}
      [] outcome.at = "roi" -> {"mat"}
      [] outcome.at = "matToBuffer" -> {"mat", "formMat"}
      [] outcome.at = "elements" -> {"detectElementsInFormCV.gray"}

Region(shows, elements) == [shows |-> shows, elements |-> elements]

\* a region with a labelled name field and a labelled amount field
DonorRegion ==
    Region(<<"A", "l", " ", "$", "5", "0">>,
           <<DetectedElement("text_field", <<"d", "o", "n", "o", "r", "_", "n", "a", "m", "e">>, Frac(4, 5)),
             DetectedElement("amount_field", <<"a", "m", "o", "u", "n", "t">>, Frac(9, 10))>>)

\* a region in which no element was found
BlankRegion == Region(<<>>, <<>>)

\* a region with one unlabelled checkbox
CardRegion ==
    Region(<<"4", "1", "1", "1", "1", "1", "1", "1", "1", "1", "1", "1", "1", "1", "1", "1">>, <<DetectedElement("checkbox", <<>>, Frac(1, 2))>>)

\* what the analysis of one page can find
PageLayouts == { <<>>, <<DonorRegion>>, <<BlankRegion, CardRegion>> }

PageOutcomes ==
    {PageOutcome(layout, "none", 0) : layout \in PageLayouts}
    \cup {PageOutcome(<<>>, at, 0) : at \in PagePoints}
    \cup UNION {{PageOutcome(layout, at, k) : at \in RegionPoints, k \in 1..Len(layout)} :
                layout \in PageLayouts}

InitDetMetrics ==
    [totalForms |-> 0, averageConfidence |-> Zero, detectionTime |-> 0,
     elementsDetected |-> 0]

\* the Detector object; tesseractWorker is TRUE when the field holds a worker
InitDetector ==
    [isInitialized |-> FALSE, tesseractWorker |-> FALSE, metrics |-> InitDetMetrics]

\* the in-flight call of detectForms; analysed lists the pages handed to
\* detectFormsInImage and log what happened in each of these analyses,
\* initAttempts counts the runs of the body of initialize
DetIdle ==
    [pc |-> "idle", images |-> <<>>, i |-> 0, detectedForms |-> <<>>,
     analysed |-> <<>>, log |-> <<>>, result |-> <<>>, error |-> "none",
     calls |-> 0, initAttempts |-> 0]

DetDone == {"idle", "returned", "threw"}

\* the synchronous start of detectForms: initialize() unless initialized
detectFormsStart(d, call, images) ==
    IF d.isInitialized
    THEN [DetIdle EXCEPT !.pc = "page", !.images = images, !.i = 1,
                         !.calls = call.calls + 1,
                         !.initAttempts = call.initAttempts]
    ELSE [DetIdle EXCEPT !.pc = "cvReady", !.images = images,
                         !.calls = call.calls + 1,
                         !.initAttempts = call.initAttempts + 1]

\* the catch block of initialize, with the flag set all the same
initializeFailedMarked(d, call) ==
    [detector |-> [d EXCEPT !.isInitialized = TRUE],
     call |-> [call EXCEPT !.pc = "threw", !.error = "Failed to initialize detector"]]

\* the catch block of initialize: the error leaves detectForms, which
\* awaits initialize outside its own try block
initializeFailed(d, call) ==
    [detector |-> d,
     call |-> [call EXCEPT !.pc = "threw", !.error = "Failed to initialize detector"]]

\* the Detector object and its call become those of r
DetBecomes(r) == det' = r.call /\ detector' = r.detector

\* detector.detectForms(images) is called
DetStart(images) ==
    /\ det.pc \in DetDone
    /\ det' = detectFormsStart(detector, det, images)
    /\ UNCHANGED detector

\* await cvReady
DetCvReady ==
    /\ det.pc = "cvReady"
    /\ \E ok \in BOOLEAN :
          DetBecomes(IF ok
                     THEN [detector |-> detector,
                           call |-> [det EXCEPT !.pc = "createWorker"]]
                     ELSE initializeFailed(detector, det))

\* this.tesseractWorker = await Tesseract.createWorker(...)
DetCreateWorker ==
    /\ det.pc = "createWorker"
    /\ \E ok \in BOOLEAN :
          DetBecomes(IF ok
                     THEN [detector |-> [detector EXCEPT !.tesseractWorker = TRUE],
                           call |-> [det EXCEPT !.pc = "setParameters"]]
                     ELSE initializeFailed(detector, det))

\* await setParameters(...), then isInitialized = true and the page loop
DetSetParameters ==
    /\ det.pc = "setParameters"
    /\ \E ok \in BOOLEAN :
          DetBecomes(IF ok
                     THEN [detector |-> [detector EXCEPT !.isInitialized = TRUE],
                           call |-> [det EXCEPT !.pc = "page", !.i = 1]]
                     ELSE initializeFailed(detector, det))

\* detectedForms.push(...formsInImage), were the forms found so far lost
\* with a page that gives none
pushFormsOrReset(detectedForms, formsInImage) ==
    IF formsInImage = <<>> THEN <<>> ELSE detectedForms \o formsInImage

\* detectedForms.push(...formsInImage)
pushForms(detectedForms, formsInImage) == detectedForms \o formsInImage

\* one pass of the page loop: await detectFormsInImage(image)
DetPage ==
    /\ det.pc = "page"
    /\ det.i <= Len(det.images)
    /\ \E outcome \in PageOutcomes :
          det' = [det EXCEPT
                    !.detectedForms =
                        pushForms(@, detectFormsInImage(det.images[det.i], outcome)),
                    !.analysed = Append(@, det.images[det.i].pageNumber),
                    !.log = Append(@, outcome),
                    !.i = @ + 1]
    /\ UNCHANGED detector

\* Detector.updateMetrics
detUpdateMetrics(metrics, detectedForms, detectionTime) ==
    [metrics EXCEPT
        !.totalForms = @ + Len(detectedForms),
        !.elementsDetected =
            @ + Len(Flatten(<<>> \o [k \in 1..Len(detectedForms) |->
                                        detectedForms[k].detectedElements])),
        !.detectionTime = @ + detectionTime,
        !.averageConfidence =
            IF Len(detectedForms) > 0
            THEN Frac(SumConfidence(detectedForms).n,
                      SumConfidence(detectedForms).d * Len(detectedForms))
            ELSE @]

\* the page loop has ended: updateMetrics and return
DetReturn ==
    /\ det.pc = "page"
    /\ det.i > Len(det.images)
    /\ \E detectionTime \in 0..MaxTime :
          detector' = [detector EXCEPT !.metrics =
                          detUpdateMetrics(@, det.detectedForms, detectionTime)]
    /\ det' = [det EXCEPT !.pc = "returned", !.result = det.detectedForms]

----------------------------------------------------------------------------
(* Detector: one instance used by concurrent callers *)

\* the Detector object with its callers: tesseractWorker is the number of
\* the worker the field refers to (0: null), workers the state of every
\* worker created so far, calls the position of each caller's detectForms,
\* cleanup the position of cleanup() and target the worker it terminates,
\* created the number of workers created since construction or the last
\* cleanup, started the number of detectForms calls so far
InitSharedDetector ==
    [isInitialized |-> FALSE, tesseractWorker |-> 0, workers |-> <<>>,
     calls |-> [c \in 1..MaxCallers |-> "idle"],
     cleanup |-> "idle", target |-> 0, created |-> 0, started |-> 0]

\* detectForms is called by caller c: initialize() unless initialized
SharedDetectForms(c) ==
    /\ sharedDetector.calls[c] \in DetDone
    /\ sharedDetector.started < MaxStarted
    /\ sharedDetector' =
          [sharedDetector EXCEPT
              !.calls[c] = IF sharedDetector.isInitialized THEN "page" ELSE "cvReady",
              !.started = @ + 1]

\* await cvReady, in the initialize() of caller c
SharedCvReady(c) ==
    /\ sharedDetector.calls[c] = "cvReady"
    /\ \E ok \in BOOLEAN :
          sharedDetector' =
              [sharedDetector EXCEPT !.calls[c] = IF ok THEN "createWorker" ELSE "threw"]

\* this.tesseractWorker = await Tesseract.createWorker(...)
SharedCreateWorker(c) ==
    /\ sharedDetector.calls[c] = "createWorker"
    /\ \E ok \in BOOLEAN :
          sharedDetector' =
              IF ok
              THEN [sharedDetector EXCEPT
                      !.workers = Append(@, "created"),
                      !.tesseractWorker = Len(sharedDetector.workers) + 1,
                      !.created = @ + 1,
                      !.calls[c] = "setParameters"]
              ELSE [sharedDetector EXCEPT !.calls[c] = "threw"]

\* await this.tesseractWorker.setParameters(...), then isInitialized = true;
\* the call throws when the field is null by then
SharedSetParameters(c) ==
    /\ sharedDetector.calls[c] = "setParameters"
    /\ \E ok \in BOOLEAN :
          sharedDetector' =
              IF ok /\ sharedDetector.tesseractWorker # 0
              THEN [sharedDetector EXCEPT !.isInitialized = TRUE, !.calls[c] = "page"]
              ELSE [sharedDetector EXCEPT !.calls[c] = "threw"]

\* the page loop of caller c ends: detectForms returns or throws
SharedPages(c) ==
    /\ sharedDetector.calls[c] = "page"
    /\ \E ok \in BOOLEAN :
          sharedDetector' =
              [sharedDetector EXCEPT !.calls[c] = IF ok THEN "returned" ELSE "threw"]

\* cleanup() is called: without a worker it completes at once
SharedCleanup ==
    /\ sharedDetector.cleanup = "idle"
    /\ sharedDetector' =
          IF sharedDetector.tesseractWorker # 0
          THEN [sharedDetector EXCEPT !.cleanup = "terminate",
                                      !.target = sharedDetector.tesseractWorker]
          ELSE [sharedDetector EXCEPT !.isInitialized = FALSE, !.created = 0]

\* await this.tesseractWorker.terminate() of cleanup, then the field is
\* set to null and isInitialized to false; the catch block only logs
SharedTerminate ==
    /\ sharedDetector.cleanup = "terminate"
    /\ \E ok \in BOOLEAN :
          sharedDetector' =
              IF ok
              THEN [sharedDetector EXCEPT
                      !.workers[sharedDetector.target] = "terminated",
                      !.tesseractWorker = 0,
                      !.isInitialized = FALSE,
                      !.cleanup = "idle", !.target = 0, !.created = 0]
              ELSE [sharedDetector EXCEPT !.cleanup = "idle", !.target = 0]

----------------------------------------------------------------------------
(* QueueManager *)

\* a JobStatus as addProcessingJob makes it; processedAt and completedAt
\* are TRUE once the timestamp is set
JobStatus(jobId) ==
    [id |-> jobId, status |-> "waiting", progress |-> 0, attemptsMade |-> 0,
     processedAt |-> FALSE, completedAt |-> FALSE]

\* the QueueManager after construction: jobs is the Map in insertion order,
\* current and stage the job and the stage of the processNextJob in
\* progress, started the jobs in the order in which their processing began,
\* added the number of addProcessingJob calls, readded whether one of them
\* took the jobId of an earlier one
InitQueue ==
    [jobs |-> <<>>, isProcessing |-> FALSE, current |-> 0, stage |-> 0,
     started |-> <<>>, added |-> 0, readded |-> FALSE]

\* the position of the job with this id in the Map, 0 when there is none
jobIndex(jobs, jobId) ==
    IF \E k \in 1..Len(jobs) : jobs[k].id = jobId
    THEN CHOOSE k \in 1..Len(jobs) : jobs[k].id = jobId
    ELSE 0

\* this.jobs.set(jobId, jobStatus): a new key goes last, the value of a
\* key already there is replaced at its place
mapSet(jobs, jobStatus) ==
    IF jobIndex(jobs, jobStatus.id) = 0 THEN Append(jobs, jobStatus)
    ELSE [jobs EXCEPT ![jobIndex(jobs, jobStatus.id)] = jobStatus]

\* the progress that the stages of simulateProcessing report
stageProgress == <<20, 50, 80, 100>>

\* QueueManager.updateJobProgress
updateJobProgress(jobs, jobId, progress) ==
    IF jobIndex(jobs, jobId) = 0 THEN jobs
    ELSE [jobs EXCEPT ![jobIndex(jobs, jobId)] =
             [@ EXCEPT !.progress = progress,
                       !.status = IF progress >= 100 THEN "completed" ELSE "active"]]

\* QueueManager.completeJob
completeJob(jobs, jobId) ==
    IF jobIndex(jobs, jobId) = 0 THEN jobs
    ELSE [jobs EXCEPT ![jobIndex(jobs, jobId)] =
             [@ EXCEPT !.status = "completed", !.progress = 100, !.completedAt = TRUE]]

\* the last waiting job in the order of the Map, 0 when none is waiting
lastWaitingJob(jobs) ==
    IF \E k \in 1..Len(jobs) : jobs[k].status = "waiting"
    THEN CHOOSE k \in 1..Len(jobs) :
            /\ jobs[k].status = "waiting"
            /\ \A j \in (k + 1)..Len(jobs) : jobs[j].status # "waiting"
    ELSE 0

\* the first waiting job in the order of the Map, 0 when none is waiting
nextJob(jobs) ==
    IF \E k \in 1..Len(jobs) : jobs[k].status = "waiting"
    THEN CHOOSE k \in 1..Len(jobs) :
            /\ jobs[k].status = "waiting"
            /\ \A j \in 1..(k - 1) : jobs[j].status # "waiting"
    ELSE 0

\* QueueManager.addProcessingJob
AddProcessingJob(jobId) ==
    /\ queue.added < MaxAdded
    /\ queue' = [queue EXCEPT
                    !.jobs = mapSet(@, JobStatus(jobId)),
                    !.added = @ + 1,
                    !.readded = @ \/ jobIndex(queue.jobs, jobId) # 0]

\* processNextJob without its check of isProcessing
ProcessNextJobUnguarded ==
    /\ nextJob(queue.jobs) # 0
    /\ LET k == nextJob(queue.jobs)
           active == [queue.jobs EXCEPT ![k].status = "active", ![k].processedAt = TRUE]
       IN  queue' = [queue EXCEPT
                        !.isProcessing = TRUE,
                        !.current = queue.jobs[k].id,
                        !.stage = 1,
                        !.started = Append(@, queue.jobs[k].id),
                        !.jobs = updateJobProgress(active, queue.jobs[k].id,
                                                   stageProgress[1])]

\* a tick of the interval finds no processing under way and a waiting job:
\* processNextJob marks it active and simulateProcessing reports the first
\* stage and starts its timer.  (A tick during processing, or with no job
\* waiting, returns at once.)
ProcessNextJob ==
    /\ ~queue.isProcessing
    /\ nextJob(queue.jobs) # 0
    /\ LET k == nextJob(queue.jobs)
           active == [queue.jobs EXCEPT ![k].status = "active", ![k].processedAt = TRUE]
       IN  queue' = [queue EXCEPT
                        !.isProcessing = TRUE,
                        !.current = queue.jobs[k].id,
                        !.stage = 1,
                        !.started = Append(@, queue.jobs[k].id),
                        !.jobs = updateJobProgress(active, queue.jobs[k].id,
                                                   stageProgress[1])]

\* the timer of a stage fires: the next stage is reported, or after the
\* last stage the job is completed and isProcessing cleared.  Nothing in
\* the try block can throw, so the catch block with failJob is never run.
StageTimer ==
    /\ queue.isProcessing
    /\ queue' = IF queue.stage < Len(stageProgress)
                THEN [queue EXCEPT
                        !.stage = @ + 1,
                        !.jobs = updateJobProgress(@, queue.current,
                                                   stageProgress[queue.stage + 1])]
                ELSE [queue EXCEPT
                        !.jobs = completeJob(@, queue.current),
                        !.isProcessing = FALSE, !.current = 0, !.stage = 0]

----------------------------------------------------------------------------
(* Upload interface and the list of uploaded files in local storage *)

\* an UploadedFileInfo as handleFiles makes it.  Of its fields the id, the
\* name, the status and the progress are kept; the id stands for the random
\* string drawn for the record.
UploadedFileInfo(id, name) ==
    [id |-> id, name |-> name, status |-> "pending", progress |-> 0]

\* JSON.stringify of the list: one entry of values per record
stringify(files) ==
    <<>> \o [k \in 1..Len(files) |->
                <<files[k].id, files[k].name, files[k].status, files[k].progress>>]

\* JSON.parse of what stringify wrote
parse(stored) ==
    <<>> \o [k \in 1..Len(stored) |->
                [id |-> stored[k][1], name |-> stored[k][2],
                 status |-> stored[k][3], progress |-> stored[k][4]]]

\* localStorage: whether it is available, whether the item
\* 'ocr_uploaded_files' was set, and its value
EmptyStorage(available) == [available |-> available, hasItem |-> FALSE, item |-> <<>>]

\* LocalStorageManager.getUploadedFiles
getUploadedFiles(storage) ==
    IF ~storage.available \/ ~storage.hasItem THEN <<>>
    ELSE parse(storage.item)

WithoutId(files, id) == SelectSeq(files, LAMBDA f : f.id # id)

\* LocalStorageManager.storeUploadedFile
storeUploadedFile(storage, fileInfo) ==
    IF ~storage.available THEN storage
    ELSE [storage EXCEPT !.hasItem = TRUE, !.item =
             stringify(Append(WithoutId(getUploadedFiles(storage), fileInfo.id),
                              fileInfo))]

\* { ...file, ...updates }: updates is a record of some of the fields
merged(file, updates) ==
    [field \in DOMAIN file |->
        IF field \in DOMAIN updates THEN updates[field] ELSE file[field]]

\* prev.map(f => f.id === fileId ? { ...f, ...updates } : f)
mapUpdate(files, fileId, updates) ==
    <<>> \o [k \in 1..Len(files) |->
                IF files[k].id = fileId THEN merged(files[k], updates) ELSE files[k]]

\* LocalStorageManager.updateUploadedFile
updateUploadedFile(storage, fileId, updates) ==
    IF ~storage.available THEN storage
    ELSE IF \E k \in 1..Len(getUploadedFiles(storage)) :
                getUploadedFiles(storage)[k].id = fileId
    THEN [storage EXCEPT !.item =
             stringify(mapUpdate(getUploadedFiles(storage), fileId, updates))]
    ELSE storage

RECURSIVE storeAll(_, _)
\* files.forEach(file => localStorageManager.storeUploadedFile(file))
storeAll(storage, files) ==
    IF files = <<>> THEN storage
    ELSE storeAll(storeUploadedFile(storage, Head(files)), Tail(files))

\* the component as mounted: uploadedFiles is its state, batch the names of
\* the files of the handleFiles call in progress and newFiles the records
\* made for them, i the position of its loop, current the record that
\* processFileWithRealOCR works on and progress the next progress it
\* reports, processed the records handed to processFileWithRealOCR by this
\* call, removed the ids given to removeFile, nextId the next id drawn,
\* calls the number of handleFiles calls
InitUpload(available) ==
    [storage |-> EmptyStorage(available), uploadedFiles |-> <<>>,
     pc |-> "idle", batch |-> <<>>, newFiles |-> <<>>, i |-> 0,
     current |-> 0, progress |-> 0, processed |-> <<>>, removed |-> {},
     nextId |-> 1, calls |-> 0]

\* both the stored list and the state of the component take the update
bothUpdated(u, fileId, updates) ==
    [u EXCEPT !.storage = updateUploadedFile(@, fileId, updates),
              !.uploadedFiles = mapUpdate(@, fileId, updates)]

\* newFiles.find(f => f.name === file.name): the position of the first
\* record with this name
findByName(newFiles, name) ==
    CHOOSE k \in 1..Len(newFiles) :
        /\ newFiles[k].name = name
        /\ \A j \in 1..(k - 1) : newFiles[j].name # name

\* the loop of handleFiles at file i: processFileWithRealOCR starts on the
\* record found for it and runs to its first timer; past the last file
\* handleFiles shows its toast and ends
loopAt(u, i) ==
    IF i > Len(u.batch) THEN [u EXCEPT !.pc = "idle", !.i = i, !.current = 0]
    ELSE LET fileId == u.newFiles[findByName(u.newFiles, u.batch[i])].id
         IN  [bothUpdated(u, fileId, [status |-> "processing"]) EXCEPT
                 !.pc = "progress", !.i = i, !.current = fileId, !.progress = 0,
                 !.processed = Append(@, fileId)]

\* handleFiles(files), files given by their names: the records are made,
\* stored and shown, and the loop starts
HandleFiles(names) ==
    /\ upload.pc = "idle"
    /\ upload.calls < MaxHandled
    /\ LET newFiles == <<>> \o [k \in 1..Len(names) |->
                                  UploadedFileInfo(upload.nextId + k - 1, names[k])]
           made == [upload EXCEPT
                      !.storage = storeAll(@, newFiles),
                      !.uploadedFiles = @ \o newFiles,
                      !.batch = names, !.newFiles = newFiles,
                      !.processed = <<>>,
                      !.nextId = @ + Len(names), !.calls = @ + 1]
       IN  upload' = loopAt(made, 1)

\* a timer of the progress loop of processFileWithRealOCR fires
ProgressTimer ==
    /\ upload.pc = "progress"
    /\ upload' = [bothUpdated(upload, upload.current, [progress |-> upload.progress])
                     EXCEPT !.progress = @ + 10,
                            !.pc = IF upload.progress + 10 > 70 THEN "fetch" ELSE @]

\* the request to /api/upload settles: it answers with success, answers
\* without, or fails; then the loop of handleFiles goes on
OcrRequestSettles ==
    /\ upload.pc = "fetch"
    /\ \E outcome \in {"success", "failure", "throws"} :
          LET full == bothUpdated(upload, upload.current, [progress |-> 100])
              done == CASE outcome = "success" ->
                              bothUpdated(full, upload.current, [status |-> "completed"])
                        [] outcome = "failure" ->
                              bothUpdated(full, upload.current, [status |-> "error"])
                        [] outcome = "throws" ->
                              bothUpdated(upload, upload.current, [status |-> "error"])
          IN  upload' = loopAt(done, upload.i + 1)

\* removeFile(fileId) on a file that the component shows
RemoveFile(fileId) ==
    /\ \E k \in 1..Len(upload.uploadedFiles) : upload.uploadedFiles[k].id = fileId
    /\ LET currentFiles == getUploadedFiles(upload.storage)
       IN  upload' = [upload EXCEPT
                        !.storage = storeAll(@, WithoutId(currentFiles, fileId)),
                        !.uploadedFiles = WithoutId(@, fileId),
                        !.removed = @ \cup {fileId}]

\* the component is mounted again: its state is what local storage holds
Reload ==
    /\ upload.pc = "idle"
    /\ upload.uploadedFiles # getUploadedFiles(upload.storage)
    /\ upload' = [upload EXCEPT !.uploadedFiles = getUploadedFiles(upload.storage)]

----------------------------------------------------------------------------
(* Segmenter *)

\* `${form.formId}_${element.label || element.type}`
fieldId(id, label) == id \o <<"_">> \o label

\* element.label || element.type
labelOrType(element) ==
    IF element.label # <<>> THEN element.label ELSE TypeName(element.type)

\* extractFieldSegment: the image of the segment is the buffer of the form
extractFieldSegment(form, element) ==
    FieldSegment(fieldId(form.formId, labelOrType(element)), element.type,
                 labelOrType(element), form.imageBuffer)

BoundingBox(x, y, width, height) == [x |-> x, y |-> y, width |-> width, height |-> height]

\* Segmenter.refineBoundingBox: the box with a small padding
refineBoundingBox(boundingBox) ==
    BoundingBox(Max(0, boundingBox.x - 5), Max(0, boundingBox.y - 5),
                boundingBox.width + 10, boundingBox.height + 10)

\* the segments of the elements from k on, but for those whose
\* extraction failed and gave null
RECURSIVE fieldSegmentsFrom(_, _, _)
fieldSegmentsFrom(form, k, failing) ==
    IF k > Len(form.detectedElements) THEN <<>>
    ELSE (IF k \in failing THEN <<>>
          ELSE <<extractFieldSegment(form, form.detectedElements[k])>>)
         \o fieldSegmentsFrom(form, k + 1, failing)

\* the segments of the elements before the first one whose extraction failed
RECURSIVE fieldSegmentsUntilFailure(_, _, _)
fieldSegmentsUntilFailure(form, k, failing) ==
    IF k > Len(form.detectedElements) \/ k \in failing THEN <<>>
    ELSE <<extractFieldSegment(form, form.detectedElements[k])>>
         \o fieldSegmentsUntilFailure(form, k + 1, failing)

\* segmentSingleForm, were the element loop to end at the first failure
segmentSingleFormStopsAtFailure(form, failing, throws) ==
    SegmentedForm(form.formId, form.pageNumber, form.confidence,
                  fieldSegmentsUntilFailure(form, 1, failing))

\* segmentSingleForm: the extraction of the elements in failing gives null;
\* throws tells that an exception is raised in the try block outside the
\* try block of extractFieldSegment, which the catch block answers
segmentSingleForm(form, failing, throws) ==
    IF throws THEN SegmentedForm(form.formId, form.pageNumber, Zero, <<>>)
    ELSE SegmentedForm(form.formId, form.pageNumber, form.confidence,
                       fieldSegmentsFrom(form, 1, failing))

InitSegmenter ==
    [metrics |-> [totalFormsSegmented |-> 0, totalFieldsSegmented |-> 0,
                  averageSegmentationTime |-> Zero, segmentationErrors |-> 0]]

\* the in-flight call of segmentFormFields
SegIdle ==
    [pc |-> "idle", forms |-> <<>>, i |-> 0, segmentedForms |-> <<>>,
     log |-> <<>>, result |-> <<>>, error |-> "none", calls |-> 0]

\* the synchronous start of segmentFormFields
segmentFormFieldsStart(call, forms) ==
    [SegIdle EXCEPT !.pc = "form", !.forms = forms, !.i = 1,
                    !.calls = call.calls + 1]

\* one pass of the form loop: await segmentSingleForm(form), in which the
\* extraction of any of the elements may fail, and the loop itself may throw;
\* log keeps what happened to each form
SegForm ==
    /\ seg.pc = "form"
    /\ seg.i <= Len(seg.forms)
    /\ \E failing \in SUBSET (1..Len(seg.forms[seg.i].detectedElements)), throws \in BOOLEAN :
          seg' = [seg EXCEPT
                    !.segmentedForms =
                        Append(@, segmentSingleForm(seg.forms[seg.i], failing, throws)),
                    !.log = Append(@, [failing |-> failing, throws |-> throws]),
                    !.i = @ + 1]
    /\ UNCHANGED segmenter

\* a direct call of segmentFormFields
SegStart(forms) ==
    /\ seg.pc \in {"idle", "returned"}
    /\ seg' = segmentFormFieldsStart(seg, forms)
    /\ UNCHANGED segmenter

\* Segmenter.updateMetrics
segUpdateMetrics(metrics, segmentedForms, segmentationTime) ==
    [metrics EXCEPT
        !.totalFormsSegmented = @ + Len(segmentedForms),
        !.totalFieldsSegmented =
            @ + Len(Flatten(<<>> \o [k \in 1..Len(segmentedForms) |->
                                        segmentedForms[k].fieldSegments])),
        !.averageSegmentationTime =
            RunningAverage(@, metrics.totalFormsSegmented, segmentationTime,
                           metrics.totalFormsSegmented + Len(segmentedForms))]

\* the form loop has ended: updateMetrics and return
SegReturn ==
    /\ seg.pc = "form"
    /\ seg.i > Len(seg.forms)
    /\ \E segmentationTime \in 0..MaxTime :
          segmenter' = [segmenter EXCEPT !.metrics =
                           segUpdateMetrics(@, seg.segmentedForms, segmentationTime)]
    /\ seg' = [seg EXCEPT !.pc = "returned", !.result = seg.segmentedForms]

----------------------------------------------------------------------------
(* OCRPipeline *)

PipeIdle ==
    [pc |-> "idle", trace |-> <<>>, result |-> <<>>, error |-> "none", calls |-> 0]

\* the argument of detector.detectForms, were it the pages before enhancement
detectorInputRaw(preCall) == preCall.images

\* the argument of detector.detectForms: processedImages
detectorInput(preCall) == preCall.result

\* the argument of segmenter.segmentFormFields: detectedForms
segmenterInput(detCall) == detCall.result

\* the argument of extractor.extractFormData: segmentedForms
extractorInput(segCall) == segCall.result

\* pipeline.processDocument(documentData) is called: stage 1 starts
PipeStart(mime) ==
    /\ pipe.pc \in {"idle", "returned", "threw"}
    /\ pipe.calls < MaxPipeCalls
    /\ pre.pc \in {"idle", "returned", "threw"}
    /\ pipe' = [PipeIdle EXCEPT !.pc = "pre", !.trace = <<"pre">>,
                                !.calls = pipe.calls + 1]
    /\ pre' = processDocumentStart(mime, pre.calls + 1)
    /\ UNCHANGED preMetrics

\* stage 1 has returned: stage 2 starts on its result
PipeDetect ==
    /\ pipe.pc = "pre"
    /\ pre.pc = "returned"
    /\ det.pc \in DetDone
    /\ pipe' = [pipe EXCEPT !.pc = "det", !.trace = Append(@, "det")]
    /\ det' = detectFormsStart(detector, det, detectorInput(pre))
    /\ UNCHANGED detector

\* stage 2 has returned: stage 3 starts on its result
PipeSegment ==
    /\ pipe.pc = "det"
    /\ det.pc = "returned"
    /\ seg.pc \in {"idle", "returned", "threw"}
    /\ pipe' = [pipe EXCEPT !.pc = "seg", !.trace = Append(@, "seg")]
    /\ seg' = segmentFormFieldsStart(seg, segmenterInput(det))
    /\ UNCHANGED segmenter

\* stage 3 has returned: stage 4 starts on its result
PipeExtract ==
    /\ pipe.pc = "seg"
    /\ seg.pc = "returned"
    /\ ext.pc \in ExtDone
    /\ pipe' = [pipe EXCEPT !.pc = "ext", !.trace = Append(@, "ext")]
    /\ ExtBecomes(extractFormDataStart(extractor, ext, extractorInput(seg)))

\* stage 4 has returned: processDocument returns extractedData
PipeReturn ==
    /\ pipe.pc = "ext"
    /\ ext.pc = "returned"
    /\ pipe' = [pipe EXCEPT !.pc = "returned", !.result = ext.result]

\* the ProcessedImage that processPage builds around its buffer: width and
\* height 0
unsizedImage(buffer, pageNumber) ==
    [imageBuffer |-> buffer, width |-> 0, height |-> 0, pageNumber |-> pageNumber]

\* pipeline.processPage(imageBuffer, pageNumber) is called:
\* preprocessor.enhanceImage starts on the image
PageStart(pageNumber) ==
    /\ pipe.pc \in {"idle", "returned", "threw"}
    /\ pipe.calls < MaxPipeCalls
    /\ pre.pc \in {"idle", "returned", "threw"}
    /\ pipe' = [PipeIdle EXCEPT !.pc = "pre", !.trace = <<"pre">>,
                                !.calls = pipe.calls + 1]
    /\ LET image == unsizedImage(RawBuffer(pageNumber), pageNumber)
       IN  pre' = [PreIdle EXCEPT !.pc = "enhanceImage", !.images = <<image>>,
                                  !.enh = StartEnhance(<<image>>),
                                  !.calls = pre.calls]
    /\ UNCHANGED preMetrics

\* one await of the enhanceImage call of processPage; after the last one
\* enhanceImage returns the image, [enhancedImage] is the detector's input
PageEnhanceStep ==
    /\ pre.pc = "enhanceImage"
    /\ \E succeeds \in BOOLEAN :
          LET task == enhanceImageStep(pre.enh[1], pre.images[1], succeeds)
          IN  /\ pre' = [pre EXCEPT
                            !.enh[1] = task,
                            !.finished = IF task.step = 6 THEN <<1>> ELSE @,
                            !.pc = IF task.step = 6 THEN "returned" ELSE @,
                            !.result = IF task.step = 6 THEN <<task.out>> ELSE @]
              /\ preMetrics' = IF pre.enh[1].step = 4 /\ task.step = 5
                               THEN [preMetrics EXCEPT !.enhancementOperations = @ + 4]
                               ELSE preMetrics

\* the call of the stage in progress
stageCall(stage) ==
    CASE stage = "pre" -> [pc |-> pre.pc, error |-> pre.error]
      [] stage = "det" -> [pc |-> det.pc, error |-> det.error]
      [] stage = "seg" -> [pc |-> seg.pc, error |-> seg.error]
      [] stage = "ext" -> [pc |-> ext.pc, error |-> ext.error]

\* the stage in progress threw: the catch block of processDocument throws
\* 'OCR Pipeline failed: <message>'
PipeCatch ==
    /\ pipe.pc \in {"pre", "det", "seg", "ext"}
    /\ stageCall(pipe.pc).pc = "threw"
    /\ pipe' = [pipe EXCEPT !.pc = "threw", !.error = stageCall(pipe.pc).error]

----------------------------------------------------------------------------
(* Payment detection utilities *)

CardType(name, pattern, gaps, lengths) ==
    [name |-> name, pattern |-> pattern, gaps |-> gaps, lengths |-> lengths]

\* the card types in the order of Object.entries(CARD_TYPES)
CARD_TYPES ==
    << CardType(<<"V", "i", "s", "a">>, Cat(<<Bol, Lit(<<"4">>)>>), <<4, 8, 12>>, <<13, 16, 19>>),
       CardType(<<"M", "a", "s", "t", "e", "r", "c", "a", "r", "d">>,
                Cat(<<Bol, Alt(<<Cat(<<Lit(<<"5">>), In({"1", "2", "3", "4", "5"})>>),
                                 Cat(<<Lit(<<"2">>), In({"2", "3", "4", "5", "6", "7"})>>)>>)>>),
                <<4, 8, 12>>, <<16>>),
       CardType(<<"A", "m", "e", "r", "i", "c", "a", "n", " ", "E", "x", "p", "r", "e", "s", "s">>, Cat(<<Bol, Lit(<<"3">>), In({"4", "7"})>>),
                <<4, 10>>, <<15>>),
       CardType(<<"D", "i", "s", "c", "o", "v", "e", "r">>,
                Cat(<<Bol, Alt(<<Lit(<<"6", "0", "1", "1">>), Lit(<<"6", "5">>),
                                 Cat(<<Lit(<<"6", "4">>), In({"4", "5", "6", "7", "8", "9"})>>),
                                 Lit(<<"6", "2", "2">>)>>)>>),
                <<4, 8, 12>>, <<16>>),
       CardType(<<"D", "i", "n", "e", "r", "s", " ", "C", "l", "u", "b">>,
                Cat(<<Bol, Alt(<<Cat(<<Lit(<<"3", "0">>), In({"0", "1", "2", "3", "4", "5"})>>),
                                 Lit(<<"3", "6">>), Lit(<<"3", "8">>)>>)>>),
                <<4, 10>>, <<14>>),
       CardType(<<"J", "C", "B">>, Cat(<<Bol, Lit(<<"3", "5">>)>>), <<4, 8, 12>>, <<16>>),
       CardType(<<"U", "n", "i", "o", "n", "P", "a", "y">>, Cat(<<Bol, Lit(<<"6", "2">>)>>), <<4, 8, 12>>, <<16, 17, 18, 19>>) >>

\* the indices of the card types whose pattern tests true on cleanNumber
matchingCardTypes(cleanNumber) ==
    {k \in 1..Len(CARD_TYPES) : ReSearch(CARD_TYPES[k].pattern, cleanNumber).found}

nameOfFirst(found) ==
    IF found = {} THEN <<"U", "n", "k", "n", "o", "w", "n">> ELSE CARD_TYPES[MinOf(found)].name

\* detectCardType: the name of the first card type whose pattern matches
detectCardType(cardNumber) ==
    nameOfFirst(matchingCardTypes(KeepChars(cardNumber, Digits)))

minCardLength == 13

maxCardLength == 19

\* one digit of the Luhn loop
luhnDigit(digit, isEven) ==
    IF isEven THEN (IF digit * 2 > 9 THEN digit * 2 - 9 ELSE digit * 2) ELSE digit

\* the Luhn loop, were no digit doubled
RECURSIVE plainSum(_, _, _)
plainSum(cleanNumber, i, isEven) ==
    IF i < 1 THEN 0
    ELSE parseInt(<<cleanNumber[i]>>) + plainSum(cleanNumber, i - 1, ~isEven)

\* the Luhn loop from index i down to the first character
RECURSIVE luhnSum(_, _, _)
luhnSum(cleanNumber, i, isEven) ==
    IF i < 1 THEN 0
    ELSE luhnDigit(parseInt(<<cleanNumber[i]>>), isEven)
         + luhnSum(cleanNumber, i - 1, ~isEven)

luhnValid(cleanNumber) ==
    IF Len(cleanNumber) < minCardLength \/ Len(cleanNumber) > maxCardLength
    THEN FALSE
    ELSE luhnSum(cleanNumber, Len(cleanNumber), FALSE) % 10 = 0

validateCardNumber(cardNumber) == luhnValid(KeepChars(cardNumber, Digits))

\* the loop over the gaps of formatCardNumber, then the rest and trim
RECURSIVE formatWithGaps(_, _, _, _)
formatWithGaps(cleanNumber, gaps, lastGap, formatted) ==
    IF gaps = <<>>
    THEN trim(formatted \o SubSeq(cleanNumber, lastGap + 1, Len(cleanNumber)))
    ELSE IF Len(cleanNumber) > Head(gaps)
    THEN formatWithGaps(cleanNumber, Tail(gaps), Head(gaps),
                        formatted \o SubSeq(cleanNumber, lastGap + 1, Head(gaps)) \o <<" ">>)
    ELSE formatWithGaps(cleanNumber, Tail(gaps), lastGap, formatted)

\* cleanNumber.replace(/(.{4})/g, '$1 ')
RECURSIVE groupsOfFour(_)
groupsOfFour(s) ==
    IF Len(s) < 4 THEN s
    ELSE SubSeq(s, 1, 4) \o <<" ">> \o groupsOfFour(SubSeq(s, 5, Len(s)))

\* the indices of the card types named type
cardTypeKeys(type) == {k \in 1..Len(CARD_TYPES) : CARD_TYPES[k].name = type}

formatClean(cleanNumber, keys) ==
    IF keys # {} THEN formatWithGaps(cleanNumber, CARD_TYPES[MinOf(keys)].gaps, 0, <<>>)
    ELSE trim(groupsOfFour(cleanNumber))

\* cardType || detectCardType(cleanNumber)
typeOrDetected(cleanNumber, cardType) ==
    IF cardType = Undefined \/ cardType = <<>> THEN detectCardType(cleanNumber)
    ELSE cardType

formatCardNumber(cardNumber, cardType) ==
    formatClean(KeepChars(cardNumber, Digits),
                cardTypeKeys(typeOrDetected(KeepChars(cardNumber, Digits), cardType)))

defaultVisibleDigits == 4

\* '*'.repeat(n)
Stars(n) == [i \in 1..n |-> "*"]

\* cleanNumber.slice(-visibleDigits)
lastDigits(cleanNumber, visibleDigits) ==
    IF visibleDigits = 0 THEN cleanNumber
    ELSE SubSeq(cleanNumber, Max(1, Len(cleanNumber) - visibleDigits + 1), Len(cleanNumber))

\* maskCardNumber, were the digits before the visible ones kept
maskCleanKeepsDigits(cleanNumber, visibleDigits) ==
    formatCardNumber(cleanNumber, Undefined)

maskClean(cleanNumber, visibleDigits) ==
    IF Len(cleanNumber) <= visibleDigits THEN Stars(Len(cleanNumber))
    ELSE formatCardNumber(Stars(Len(cleanNumber) - visibleDigits)
                          \o lastDigits(cleanNumber, visibleDigits), Undefined)

maskCardNumber(cardNumber, visibleDigits) ==
    maskClean(KeepChars(cardNumber, Digits), visibleDigits)

\* a call of one of the functions on text or card numbers: the string x it
\* starts from and the calls made, each with its argument and its result
UtilIdle == [x |-> <<>>, calls |-> <<>>]

UtilCall(fn, arg, ret) == [fn |-> fn, arg |-> arg, ret |-> ret]

CallExtractAmount ==
    /\ util.calls = <<>>
    /\ util' = [util EXCEPT !.calls =
                   <<UtilCall("extractAmount", util.x, extractAmount(util.x))>>]

CallExtractPaymentInfo ==
    /\ util.calls = <<>>
    /\ util' = [util EXCEPT !.calls =
                   <<UtilCall("extractPaymentInfo", util.x, extractPaymentInfo(util.x))>>]

CallDetectCreditCardType ==
    /\ util.calls = <<>>
    /\ util' = [util EXCEPT !.calls =
                   <<UtilCall("detectCreditCardType", util.x, detectCreditCardType(util.x))>>]

CallDetectCardType ==
    /\ util.calls = <<>>
    /\ util' = [util EXCEPT !.calls =
                   <<UtilCall("detectCardType", util.x, detectCardType(util.x))>>]

CallValidateCardNumber ==
    /\ util.calls = <<>>
    /\ util' = [util EXCEPT !.calls =
                   <<UtilCall("validateCardNumber", util.x, validateCardNumber(util.x))>>]

CallFormatCardNumber ==
    /\ util.calls = <<>>
    /\ util' = [util EXCEPT !.calls =
                   <<UtilCall("formatCardNumber", util.x,
                              formatCardNumber(util.x, Undefined))>>]

\* the call refineBoundingBox(imageBuffer, boundingBox) of extractFieldSegment
CallEnhanceElementsWithOCR ==
    /\ util.calls = <<>>
    /\ util' = [util EXCEPT !.calls =
                   <<UtilCall("enhanceElementsWithOCR", util.x,
                              enhanceElementsWithOCR(util.x.elements, util.x.nearby,
                                                     util.x.recognizes))>>]

\* calculateFormConfidence on the elements that enhanceElementsWithOCR left
CallCalculateFormConfidence ==
    /\ Len(util.calls) = 1
    /\ util.calls[1].fn = "enhanceElementsWithOCR"
    /\ util' = [util EXCEPT !.calls =
                   Append(@, UtilCall("calculateFormConfidence", util.calls[1].ret,
                                      calculateFormConfidence(util.calls[1].ret)))]

CallRefineBoundingBox ==
    /\ util.calls = <<>>
    /\ util' = [util EXCEPT !.calls =
                   <<UtilCall("refineBoundingBox", util.x, refineBoundingBox(util.x))>>]

\* maskCardNumber on the result of the call before
CallMaskCardNumber ==
    /\ Len(util.calls) = 1
    /\ util.calls[1].fn = "formatCardNumber"
    /\ util' = [util EXCEPT !.calls =
                   Append(@, UtilCall("maskCardNumber", util.calls[1].ret,
                                      maskCardNumber(util.calls[1].ret,
                                                     defaultVisibleDigits)))]

----------------------------------------------------------------------------
(* Sample inputs *)

SampleSegment(id, type, label, shows) ==
    FieldSegment(fieldId(id, label), type, label, Buffer(shows))

\* a form that reached the Extractor without field segments
EmptyForm == SegmentedForm(formId(1, 1), 1, Zero, <<>>)

\* a form whose amount field reads "$5"
FiveDollarForm ==
    SegmentedForm(formId(1, 1), 1, Frac(4, 5),
        <<SampleSegment(formId(1, 1), "amount_field", <<"a", "m", "o", "u", "n", "t">>, <<"$", "5">>)>>)

\* a form with a donor name and a valid amount
DonorForm ==
    SegmentedForm(formId(1, 2), 1, Frac(4, 5),
        <<SampleSegment(formId(1, 2), "text_field", <<"d", "o", "n", "o", "r", "_", "n", "a", "m", "e">>, <<" ", "J", "a", "n", "e", " ", "D", "o", "e", " ">>),
          SampleSegment(formId(1, 2), "amount_field", <<"a", "m", "o", "u", "n", "t">>, <<"$", "1", "0", "0">>)>>)

\* a form with a card number and a malformed email address
CardForm ==
    SegmentedForm(formId(2, 1), 2, Frac(4, 5),
        <<SampleSegment(formId(2, 1), "text_field", <<"p", "a", "y", "m", "e", "n", "t", "_", "c", "r", "e", "d", "i", "t", "_", "c", "a", "r", "d">>,
                        <<"4", "1", "1", "1", "1", "1", "1", "1", "1", "1", "1", "1", "1", "1", "1", "1">>),
          SampleSegment(formId(2, 1), "text_field", <<"e", "m", "a", "i", "l">>, <<"j", "a", "n", "e", "@", "e", "x", "a", "m", "p", "l", "e">>)>>)

\* forms whose only segment is a date field
DateForm(i, shows) ==
    SegmentedForm(formId(1, i), 1, Frac(4, 5),
        <<SampleSegment(formId(1, i), "date_field", <<"d", "a", "t", "e">>, shows)>>)

\* lists of enhanced pages handed to the Detector
SamplePages ==
    { <<>>,
      <<ProcessedImage(standardizeResolution(RawBuffer(1)), 1)>>,
      <<ProcessedImage(RawBuffer(1), 1), ProcessedImage(RawBuffer(2), 2)>> }

SampleFormLists ==
    { <<>>, <<FiveDollarForm>>, <<EmptyForm, DonorForm>>, <<CardForm, EmptyForm>>,
      <<DateForm(1, <<"0", "3", "/", "1", "5", "/", "2", "0", "2", "4">>),
        DateForm(2, <<"0", "3", "-", "1", "5", "-", "2", "0", "2", "4">>)>>,
      <<DateForm(1, <<"D", "a", "t", "e", ":", " ", "0", "3", "/", "1", "5", "/", "2", "0", "2", "4">>)>> }

\* a region with three elements, the second one unlabelled
PledgeRegion ==
    Region(<<"A", "l">>,
           <<DetectedElement("text_field", <<"e", "m", "a", "i", "l">>, Frac(4, 5)),
             DetectedElement("date_field", <<>>, Frac(1, 2)),
             DetectedElement("signature_area", <<"s", "i", "g", "n">>, Frac(9, 10))>>)

\* lists of detected forms handed to the Segmenter
SampleDetectedForms ==
    { <<>>,
      <<DetectedForm(1, 1, PledgeRegion)>>,
      <<DetectedForm(1, 1, BlankRegion), DetectedForm(2, 1, DonorRegion)>>,
      <<DetectedForm(1, 1, DonorRegion), DetectedForm(1, 2, CardRegion),
        DetectedForm(2, 1, PledgeRegion)>> }

\* amounts as they are written on forms
SampleAmounts ==
    { <<"$", "2", "4">>, <<"$", "1", "5", "0">>, <<"$", "1", "0">>, <<"$", "2", "5">>, <<"$", "2", "5", ",", "0", "0", "0">>, <<"$", "2", "5", ",", "0", "0", "1">>, <<"$", "1", ",", "0", "0", "0">>, <<"$", "1", "0", "0", ".", "0", "0">>,
      <<"$", "1", "5", "0", "0">>, <<"$", "3", "0", "0", "0", "0">> }

\* texts with one amount, or with two amounts one after the other
SampleAmountTexts ==
    SampleAmounts
    \cup {<<"G", "i", "f", "t", ":", " ">> \o a \o <<",", " ", "t", "h", "e", "n", " ">> \o b : a \in SampleAmounts, b \in SampleAmounts}

\* texts about the way of payment
SamplePaymentTexts ==
    { <<"C", "a", "s", "h", " ", "X">>, <<"c", "a", "s", "h">>, <<"C", "A", "S", "H", " ", "CHECK", " ", "c", "h", "e", "c", "k", " ", "V", "i", "s", "a">>, <<"C", "a", "s", "h", " ", "X", " ", "C", "h", "e", "c", "k">>, <<"C", "h", "e", "c", "k", " ", "n", "o", " ", "1", "2">>,
      <<"c", "h", "e", "c", "k", " ", "V", "i", "s", "a", " ", "4", "1", "1", "1", "1", "1", "1", "1", "1", "1", "1", "1", "1", "1", "1", "1">>, <<"C", "a", "s", "h", " ", "V", "i", "s", "a">>, <<"C", "a", "s", "h", " ", "x", " ", "a", "m", "e", "x">>, <<"h", "e", "l", "l", "o">>,
      <<"V", "i", "s", "a", " ", "A", "c", "c", "o", "u", "n", "t", " ", "N", "o", ":", " ", "4", "1", "1", "1", " ", "1", "1", "1", "1", " ", "1", "1", "1", "1", " ", "1", "1", "1", "1", " ", "E", "x", "p", " ", "d", "a", "t", "e", ":", " ", "1", "/", "2", "5", " ", "C", "V", "V", " ", "1", "2", "3", " ", "S", "i", "g", "n", "a", "t", "u", "r", "e", ":", " ", "A", "l">>,
      <<"A", "c", "c", "o", "u", "n", "t", " ", "N", "o", ":", " ", "5", "5", "0", "0", "0", "0", "0", "0", "0", "0", "0", "0", "0", "0", "0", "4", " ", "E", "x", "p", "i", "r", "e", "s", " ", "o", "n", " ", "1", "2", "/", "2", "0", "2", "6">>,
      <<"C", "r", "e", "d", "i", "t", " ", "C", "a", "r", "d", " ", "n", "u", "m", "b", "e", "r", ":", " ", "1", "2", "3", "4", "5", "6", "7", "8", "1", "2", "3", "4", "5", "6", "7", "8", " ", "C", "V", "V", " ", "1", "2", "3">>,
      <<"M", "/", "C", " ", "E", "x", "p", " ", "d", "a", "t", "e", ":", " ", "3", "-", "2", "7">>, <<"D", "i", "s", "c", "o", "v", "e", "r", " ", "C", "a", "s", "h">>, <<"6", "0", "1", "1", "0", "0", "0", "0", "0", "0", "0", "0", "0", "0", "0", "4">> }

SampleTexts == SampleAmountTexts \cup SamplePaymentTexts

\* leading digits of card numbers, of every brand and of none
SamplePrefixes ==
    { <<"4">>, <<"5", "0">>, <<"5", "1">>, <<"5", "5">>, <<"2", "2", "0", "0">>, <<"2", "2", "2", "1">>, <<"2", "7", "2", "0">>, <<"2", "7">>, <<"3", "4">>, <<"3", "7">>, <<"3", "6">>, <<"3", "5">>,
      <<"6", "0">>, <<"6", "0", "1", "1">>, <<"6", "5">>, <<"6", "2", "2">>, <<"6", "2">>, <<"1">> }

SampleLengths == {5, 12, 13, 15, 16, 19, 20}

\* the digits of s from position k on, one after the other
DigitAt(k) == <<"0", "1", "2", "3", "4", "5", "6", "7", "8", "9">>[((7 * k) % 10) + 1]

\* the number of the given length that starts with prefix and ends with last
CardNumber(prefix, length, last) ==
    prefix \o [k \in 1..(length - Len(prefix) - 1) |-> DigitAt(k)] \o <<last>>

SampleCardNumbers ==
    {CardNumber(prefix, length, last) :
        prefix \in SamplePrefixes, length \in SampleLengths, last \in Digits}

\* card numbers as digits, and some written with separators
SampleCardInputs ==
    SampleCardNumbers
    \cup { <<"4", "1", "1", "1", " ", "1", "1", "1", "1", " ", "1", "1", "1", "1", " ", "1", "1", "1", "1">>, <<"4", "1", "1", "1", "-", "1", "1", "1", "1", "-", "1", "1", "1", "1", "-", "1", "1", "1", "2">>, <<"3", "7", "8", "2", " ", "8", "2", "2", "4", "6", "3", " ", "1", "0", "0", "0", "5">>,
           <<"c", "a", "r", "d", " ", "4", "2", "2", "2", "2", "2", "2", "2", "2", "2", "2", "2", "2">> }

\* the boxes of elements at and near the left and top edges of a form image
SampleBoxes ==
    {BoundingBox(x, y, width, height) :
        x \in 0..MaxBoxOrigin, y \in 0..MaxBoxOrigin,
        width \in 1..MaxBoxSide, height \in 1..MaxBoxSide}

\* whole-page images
SamplePageImages ==
    { Buffer(<<"F", "i", "r", "s", "t", " ", "N", "a", "m", "e", ":", " ", "J", "a", "n", "e", "\n", "L", "a", "s", "t", " ", "N", "a", "m", "e", ":", " ", "D", "o", "e", "\n", "P", "h", "o", "n", "e", ":", " ", "5", "5", "5", "-", "1", "2", "3", "-", "4", "5", "6", "7", "\n", "A", "m", "o", "u", "n", "t", ":", " ", "$", "1", "0", "0", "\n", "V", "i", "s", "a", " ", "4", "1", "1", "1", "1", "1", "1", "1", "1", "1", "1", "1", "1", "1", "1", "1">>),
      Buffer(<<"M", "s", ".", " ", "A", "n", "n", " ", "L", "e", "e", " ", "g", "i", "v", "e", "s", " ", "$", "5">>),
      Buffer(<<"4", "1", "1", "1", "1", "1", "1", "1", "1", "1", "1", "1", "1", "1", "1", "1">>) }

----------------------------------------------------------------------------
\* an element found in a form and what the words near it read
Found(element, nearby) == [element |-> element, nearby |-> nearby]

\* the elements as the three CV passes make them (a checkbox at 0.8, a text
\* field at 0.7, a signature area at 0.6) and elements at the ends of [0, 1]
SampleFound ==
    { Found(DetectedElement("checkbox", <<>>, Frac(8, 10)), Undefined),
      Found(DetectedElement("text_field", <<>>, Frac(7, 10)), <<"N", "a", "m", "e", ":", " ">>),
      Found(DetectedElement("text_field", <<>>, Frac(7, 10)), <<"A", "m", "o", "u", "n", "t", " ", "$", "5", "0">>),
      Found(DetectedElement("signature_area", <<>>, Frac(6, 10)), <<"s", "i", "g", "n", " ", "h", "e", "r", "e">>),
      Found(DetectedElement("text_field", <<"d", "o", "n", "o", "r", "_", "n", "a", "m", "e">>, One), Undefined),
      Found(DetectedElement("amount_field", <<"a", "m", "o", "u", "n", "t">>, One), <<"1", "2", "/", "2", "5", "/", "2", "0", "2", "4">>),
      Found(DetectedElement("checkbox", <<>>, Zero), <<"x">>) }

SampleFoundLists == UNION {[1..n -> SampleFound] : n \in 0..MaxElements}

SampleElementInputs ==
    {[elements |-> <<>> \o [k \in 1..Len(found) |-> found[k].element],
      nearby |-> <<>> \o [k \in 1..Len(found) |-> found[k].nearby],
      recognizes |-> recognizes] :
        found \in SampleFoundLists, recognizes \in BOOLEAN}

\* the names of the files of a handleFiles call: one file, two files, and
\* two files of the same name
SampleBatches ==
    { <<"form.png">>, <<"form.png", "scan.png">>, <<"form.png", "form.png">> }

MaxFileId == MaxHandled * MaxBatch

----------------------------------------------------------------------------
(* Specifications *)

\* the variables of the components outside the pipeline
appVars == <<sharedDetector, queue, upload>>

preVars == <<pre, preMetrics>>

detVars == <<det, detector>>

segVars == <<seg, segmenter>>

extVars == <<ext, extractor>>

\* the variables a step of one component leaves alone
exceptPre == <<det, detector, seg, segmenter, ext, extractor, pipe, util, appVars>>

exceptDet == <<pre, preMetrics, seg, segmenter, ext, extractor, pipe, util, appVars>>

exceptSeg == <<pre, preMetrics, det, detector, ext, extractor, pipe, util, appVars>>

exceptExt == <<pre, preMetrics, det, detector, seg, segmenter, pipe, util, appVars>>

exceptUtil == <<pre, preMetrics, det, detector, seg, segmenter, ext, extractor, pipe, appVars>>

pipelineVars == <<pre, preMetrics, det, detector, seg, segmenter, ext, extractor, pipe>>

exceptShared == <<pipelineVars, util, queue, upload>>

exceptQueue == <<pipelineVars, util, sharedDetector, upload>>

exceptUpload == <<pipelineVars, util, sharedDetector, queue>>

\* the components as constructed, the Extractor in the given environment,
\* but for the upload interface
Services(isServerSide) ==
    /\ pre = PreIdle
    /\ preMetrics = InitPreMetrics
    /\ det = DetIdle
    /\ detector = InitDetector
    /\ seg = SegIdle
    /\ segmenter = InitSegmenter
    /\ ext = ExtIdle
    /\ extractor = InitExtractor(isServerSide)
    /\ pipe = PipeIdle
    /\ sharedDetector = InitSharedDetector
    /\ queue = InitQueue

\* the components as constructed, the upload interface in a window with
\* local storage
Components(isServerSide) == Services(isServerSide) /\ upload = InitUpload(TRUE)

\* every component as constructed and no function called
Constructed(isServerSide) == Components(isServerSide) /\ util = UtilIdle

InitPre == Constructed(FALSE)

\* direct calls of the Preprocessor
NextPre ==
    \/ \E mime \in MimeTypes : PreCall(mime) /\ UNCHANGED exceptPre
    \/ PreConvertPage /\ UNCHANGED exceptPre
    \/ PreImageBuffer /\ UNCHANGED exceptPre
    \/ \E i \in 1..(MaxPages + 1) : PreEnhanceStep(i) /\ UNCHANGED exceptPre
    \/ PreReturn /\ UNCHANGED exceptPre

SpecPre == InitPre /\ [][NextPre]_vars

InitDet == Constructed(FALSE)

\* direct calls of the Detector, one after the other
NextDet ==
    \/ \E images \in SamplePages :
          det.calls < MaxDetCalls /\ DetStart(images) /\ UNCHANGED exceptDet
    \/ DetCvReady /\ UNCHANGED exceptDet
    \/ DetCreateWorker /\ UNCHANGED exceptDet
    \/ DetSetParameters /\ UNCHANGED exceptDet
    \/ DetPage /\ UNCHANGED exceptDet
    \/ DetReturn /\ UNCHANGED exceptDet

SpecDet == InitDet /\ [][NextDet]_vars

InitSeg == Constructed(FALSE)

\* direct calls of the Segmenter, one after the other
NextSeg ==
    \/ \E forms \in SampleDetectedForms :
          seg.calls < MaxSegCalls /\ SegStart(forms) /\ UNCHANGED exceptSeg
    \/ SegForm /\ UNCHANGED exceptSeg
    \/ SegReturn /\ UNCHANGED exceptSeg

SpecSeg == InitSeg /\ [][NextSeg]_vars

\* an Extractor in a browser or on a server
InitExt == \E isServerSide \in BOOLEAN : Constructed(isServerSide)

\* direct calls of the Extractor
NextExt ==
    \/ \E forms \in SampleFormLists :
          ext.calls < MaxExtCalls /\ ExtStartFormData(forms) /\ UNCHANGED exceptExt
    \/ \E image \in SamplePageImages :
          ext.calls < MaxExtCalls /\ ExtStartRealImage(image) /\ UNCHANGED exceptExt
    \/ ExtCreateWorker /\ UNCHANGED exceptExt
    \/ ExtConfigureWorker /\ UNCHANGED exceptExt
    \/ ExtNextForm /\ UNCHANGED exceptExt
    \/ ExtRecognize /\ UNCHANGED exceptExt
    \/ ExtReturn /\ UNCHANGED exceptExt
    \/ ExtFullImage /\ UNCHANGED exceptExt

SpecExt == InitExt /\ [][NextExt]_vars

\* the functions on text and card numbers, each on one of the sample inputs
InitUtil ==
    \E x \in SampleTexts \cup SampleCardInputs :
        Components(FALSE) /\ util = [UtilIdle EXCEPT !.x = x]

NextUtil ==
    \/ CallExtractAmount /\ UNCHANGED exceptUtil
    \/ CallExtractPaymentInfo /\ UNCHANGED exceptUtil
    \/ CallDetectCreditCardType /\ UNCHANGED exceptUtil
    \/ CallDetectCardType /\ UNCHANGED exceptUtil
    \/ CallValidateCardNumber /\ UNCHANGED exceptUtil
    \/ CallFormatCardNumber /\ UNCHANGED exceptUtil
    \/ CallMaskCardNumber /\ UNCHANGED exceptUtil

SpecUtil == InitUtil /\ [][NextUtil]_vars

\* refineBoundingBox on one of the sample boxes
InitBox == \E box \in SampleBoxes : Components(FALSE) /\ util = [UtilIdle EXCEPT !.x = box]

NextBox == CallRefineBoundingBox /\ UNCHANGED exceptUtil

SpecBox == InitBox /\ [][NextBox]_vars

\* the confidence of a form from the elements found in it
InitConf ==
    \E x \in SampleElementInputs : Components(FALSE) /\ util = [UtilIdle EXCEPT !.x = x]

NextConf ==
    \/ CallEnhanceElementsWithOCR /\ UNCHANGED exceptUtil
    \/ CallCalculateFormConfidence /\ UNCHANGED exceptUtil

SpecConf == InitConf /\ [][NextConf]_vars

\* an OCRPipeline in a browser or on a server
Init == \E isServerSide \in BOOLEAN : Constructed(isServerSide)

\* OCRPipeline.processDocument on documents of at most MaxPipePages pages:
\* the steps of the pipeline and of the stage it is waiting for
Next ==
    \/ \E mime \in MimeTypes :
          PipeStart(mime) /\ UNCHANGED <<detVars, segVars, extVars, util, appVars>>
    \/ PreConvertPage /\ Len(pre'.images) <= MaxPipePages /\ UNCHANGED exceptPre
    \/ PreImageBuffer /\ UNCHANGED exceptPre
    \/ \E i \in 1..MaxPipePages : PreEnhanceStep(i) /\ UNCHANGED exceptPre
    \/ PreReturn /\ UNCHANGED exceptPre
    \/ PipeDetect /\ UNCHANGED <<preVars, segVars, extVars, util, appVars>>
    \/ DetCvReady /\ UNCHANGED exceptDet
    \/ DetCreateWorker /\ UNCHANGED exceptDet
    \/ DetSetParameters /\ UNCHANGED exceptDet
    \/ DetPage /\ UNCHANGED exceptDet
    \/ DetReturn /\ UNCHANGED exceptDet
    \/ PipeSegment /\ UNCHANGED <<preVars, detVars, extVars, util, appVars>>
    \/ SegForm /\ UNCHANGED exceptSeg
    \/ SegReturn /\ UNCHANGED exceptSeg
    \/ PipeExtract /\ UNCHANGED <<preVars, detVars, segVars, util, appVars>>
    \/ ExtCreateWorker /\ UNCHANGED exceptExt
    \/ ExtConfigureWorker /\ UNCHANGED exceptExt
    \/ ExtNextForm /\ UNCHANGED exceptExt
    \/ ExtRecognize /\ UNCHANGED exceptExt
    \/ ExtReturn /\ UNCHANGED exceptExt
    \/ PipeReturn /\ UNCHANGED <<preVars, detVars, segVars, extVars, util, appVars>>
    \/ PipeCatch /\ UNCHANGED <<preVars, detVars, segVars, extVars, util, appVars>>

Spec == Init /\ [][Next]_vars

\* OCRPipeline.processPage on one page: the steps of the pipeline and of
\* the stage it is waiting for.  processPage has no catch block: a stage
\* that throws rejects it with the stage's error.
NextPage ==
    \/ \E pageNumber \in 1..MaxPages :
          PageStart(pageNumber) /\ UNCHANGED <<detVars, segVars, extVars, util, appVars>>
    \/ PageEnhanceStep /\ UNCHANGED exceptPre
    \/ PipeDetect /\ UNCHANGED <<preVars, segVars, extVars, util, appVars>>
    \/ DetCvReady /\ UNCHANGED exceptDet
    \/ DetCreateWorker /\ UNCHANGED exceptDet
    \/ DetSetParameters /\ UNCHANGED exceptDet
    \/ DetPage /\ UNCHANGED exceptDet
    \/ DetReturn /\ UNCHANGED exceptDet
    \/ PipeSegment /\ UNCHANGED <<preVars, detVars, extVars, util, appVars>>
    \/ SegForm /\ UNCHANGED exceptSeg
    \/ SegReturn /\ UNCHANGED exceptSeg
    \/ PipeExtract /\ UNCHANGED <<preVars, detVars, segVars, util, appVars>>
    \/ ExtCreateWorker /\ UNCHANGED exceptExt
    \/ ExtConfigureWorker /\ UNCHANGED exceptExt
    \/ ExtNextForm /\ UNCHANGED exceptExt
    \/ ExtRecognize /\ UNCHANGED exceptExt
    \/ ExtReturn /\ UNCHANGED exceptExt
    \/ PipeReturn /\ UNCHANGED <<preVars, detVars, segVars, extVars, util, appVars>>
    \/ PipeCatch /\ UNCHANGED <<preVars, detVars, segVars, extVars, util, appVars>>

SpecPage == Init /\ [][NextPage]_vars

\* one Detector and the detectForms calls of MaxCallers concurrent callers
InitShared == Constructed(FALSE)

NextShared ==
    \/ \E c \in 1..MaxCallers : SharedDetectForms(c) /\ UNCHANGED exceptShared
    \/ \E c \in 1..MaxCallers : SharedCvReady(c) /\ UNCHANGED exceptShared
    \/ \E c \in 1..MaxCallers : SharedCreateWorker(c) /\ UNCHANGED exceptShared
    \/ \E c \in 1..MaxCallers : SharedSetParameters(c) /\ UNCHANGED exceptShared
    \/ \E c \in 1..MaxCallers : SharedPages(c) /\ UNCHANGED exceptShared
    \/ SharedCleanup /\ UNCHANGED exceptShared
    \/ SharedTerminate /\ UNCHANGED exceptShared

SpecShared == InitShared /\ [][NextShared]_vars

\* a QueueManager: jobs are added while its processor runs
InitQueueManager == Constructed(FALSE)

NextQueue ==
    \/ \E jobId \in 1..MaxJobs : AddProcessingJob(jobId) /\ UNCHANGED exceptQueue
    \/ ProcessNextJob /\ UNCHANGED exceptQueue
    \/ StageTimer /\ UNCHANGED exceptQueue

SpecQueue == InitQueueManager /\ [][NextQueue]_vars

\* the interval set by startQueueProcessor keeps firing, and so does every
\* timer set by simulateProcessing
SpecQueueFair ==
    /\ SpecQueue
    /\ WF_vars(ProcessNextJob /\ UNCHANGED exceptQueue)
    /\ WF_vars(StageTimer /\ UNCHANGED exceptQueue)

\* the upload interface in a window with or without local storage
InitUploadInterface ==
    \E available \in BOOLEAN :
        /\ Services(FALSE)
        /\ util = UtilIdle
        /\ upload = InitUpload(available)

NextUpload ==
    \/ \E names \in SampleBatches : HandleFiles(names) /\ UNCHANGED exceptUpload
    \/ ProgressTimer /\ UNCHANGED exceptUpload
    \/ OcrRequestSettles /\ UNCHANGED exceptUpload
    \/ \E fileId \in 1..MaxFileId : RemoveFile(fileId) /\ UNCHANGED exceptUpload
    \/ Reload /\ UNCHANGED exceptUpload

SpecUpload == InitUploadInterface /\ [][NextUpload]_vars

\* every timer fires and every request to /api/upload settles
SpecUploadFair ==
    /\ SpecUpload
    /\ WF_vars(ProgressTimer /\ UNCHANGED exceptUpload)
    /\ WF_vars(OcrRequestSettles /\ UNCHANGED exceptUpload)

----------------------------------------------------------------------------
(* Claims about the Preprocessor (specification SpecPre) *)

Unsupported(mime) == ~IsPdf(mime) /\ ~IsImage(mime)

\* a call on an unsupported type is failed and holds nothing
UnsupportedStaysEmpty ==
    (pre.pc # "idle" /\ Unsupported(pre.mime)) =>
        /\ pre.pc = "threw"
        /\ pre.rasterLog = <<>> /\ pre.enh = <<>> /\ pre.result = <<>>

\* C7: a processDocument call with a MIME type that is neither
\* application/pdf nor image/* fails at once: the call is in its failed
\* state, nothing was requested from the rasterizer, no enhancement task
\* was started, no PageImage is held or returned, and the metrics are the
\* ones before the call.
C7_UnsupportedMimeFails ==
    /\ []UnsupportedStaysEmpty
    /\ [][(pre'.calls # pre.calls /\ Unsupported(pre'.mime)) =>
             /\ pre'.pc = "threw"
             /\ pre'.error = "Unsupported file type"
             /\ pre'.rasterLog = <<>>
             /\ pre'.enh = <<>>
             /\ pre'.images = <<>>
             /\ pre'.result = <<>>
             /\ preMetrics' = preMetrics]_vars

\* an unsupported document rejected by a Preprocessor that has already
\* processed pages (so that its metrics are not the initial ones)
C7_Witness ==
    /\ pre.pc = "threw"
    /\ pre.mime = <<"text", "plain">>
    /\ pre.error = "Unsupported file type"
    /\ preMetrics.totalProcessed > 0
    /\ preMetrics.enhancementOperations > 0

\* the pages 1..n of a PDF, as pushed by the conversion loop
PagesUpTo(n) == [i \in 1..n |-> ProcessedImage(RawBuffer(i), i)]

PageNumbers(images) == [i \in 1..Len(images) |-> images[i].pageNumber]

\* the conversion loop has ended on a page whose rasterization threw or
\* returned no data
RasterEnded ==
    /\ IsPdf(pre.mime)
    /\ pre.pc \in {"enhance", "returned"}
    /\ pre.rasterLog[Len(pre.rasterLog)].outcome \in {"throw", "nodata"}

\* C8: when pages 1..N of a PDF rasterize and page N+1 throws or returns
\* no data, the loop has requested exactly the pages 1, ..., N+1 in that
\* order, it holds exactly the N pages numbered 1..N, the call does not
\* fail, and it returns N PageImages numbered 1..N in that order.
C8_PdfStopsAtFirstFailure ==
    /\ IsPdf(pre.mime) => pre.pc # "threw"
    /\ IsPdf(pre.mime) =>
          \A i \in 1..Len(pre.rasterLog) :
             /\ pre.rasterLog[i].page = i
             /\ i < Len(pre.rasterLog) => pre.rasterLog[i].outcome = "ok"
    /\ RasterEnded =>
          LET N == Len(pre.rasterLog) - 1
          IN  /\ pre.images = PagesUpTo(N)
              /\ Len(pre.enh) = N
              /\ pre.pc = "returned" =>
                    /\ Len(pre.result) = N
                    /\ PageNumbers(pre.result) = [i \in 1..N |-> i]

\* a PDF of MaxPages pages whose next page throws has been returned
C8_Witness ==
    /\ RasterEnded
    /\ pre.pc = "returned"
    /\ Len(pre.rasterLog) = MaxPages + 1
    /\ pre.rasterLog[MaxPages + 1].outcome = "throw"
    /\ Len(pre.result) = MaxPages

\* the operations of EnhanceOps other than the k-th, in order
OpsWithout(k) ==
    SubSeq(EnhanceOps, 1, k - 1) \o SubSeq(EnhanceOps, k + 1, Len(EnhanceOps))

\* C9 as stated: a failing operation is only skipped, so the returned
\* image carries the effects of the three other operations.
C9_FailedStepOnlySkipped ==
    \A i \in DOMAIN pre.enh :
       (pre.enh[i].step = 6 /\ pre.enh[i].failedAt \in 1..4) =>
           pre.enh[i].out.imageBuffer.ops = OpsWithout(pre.enh[i].failedAt)

\* C9 amended: the operations run in the order deskew, contrast, noise
\* reduction, resolution; when all of them and the final size read
\* succeed the page carries all four; as soon as one fails the task ends
\* and returns the page it was given, with none of the effects of the
\* operations that had succeeded.  The page is always returned.
C9_FailureReturnsInputPage ==
    \A i \in DOMAIN pre.enh :
       LET task == pre.enh[i]
       IN  /\ task.step <= 5 =>
                /\ task.buffer.ops = SubSeq(EnhanceOps, 1, task.step - 1)
                /\ task.failedAt = 0
           /\ (task.step = 6 /\ task.failedAt = 0) =>
                /\ task.out.imageBuffer.ops = EnhanceOps
                /\ task.out.width = targetWidth
                /\ task.out.height = targetHeight
           /\ (task.step = 6 /\ task.failedAt # 0) =>
                /\ task.out = pre.images[i]
                /\ task.out.imageBuffer.ops = <<>>
                /\ Len(task.buffer.ops) = Min(task.failedAt, 5) - 1
           /\ task.out.pageNumber = pre.images[i].pageNumber

\* a page whose third operation failed after two had succeeded was
\* returned, beside a page that was enhanced completely
C9_Witness ==
    /\ pre.pc = "returned"
    /\ \E i \in DOMAIN pre.enh : pre.enh[i].failedAt = 3
    /\ \E i \in DOMAIN pre.enh : pre.enh[i].failedAt = 0
    /\ Len(pre.result) = Len(pre.images)

----------------------------------------------------------------------------
(* Claims about the Extractor (specification SpecExt) *)

\* the records the current call has emitted so far
ExtEmitted == IF ext.pc = "returned" THEN ext.result ELSE ext.out

InFormData == ext.op = "extractFormData"

\* the records emitted for the forms 1..Len(out) are numbered by position,
\* and a form without segments has the record of a failed form
NumberedByPosition ==
    \A k \in 1..Len(ext.out) :
       /\ ext.out[k].formNumber = k
       /\ ext.forms[k].fieldSegments = <<>> =>
             ext.out[k] = FailedFormRecord(k, noSegmentsMessage)

\* C3 as stated, "initialized" read as the isInitialized flag of the
\* Extractor: an extractFormData call on an initialized Extractor ends by
\* returning one record per form.
C3_InitializedReturnsAll ==
    (InFormData /\ extractor.isInitialized /\ ext.pc \in {"returned", "threw"}) =>
        /\ ext.pc = "returned"
        /\ Len(ext.result) = Len(ext.forms)

\* C3 amended: in a browser, once initializeOCREngine has succeeded inside
\* an extractFormData call, the call cannot fail any more; it emits one
\* record per form in input order, the k-th with formNumber = k whatever
\* its formId, a form without field segments giving the record of a failed
\* form (empty fields, confidence 0, one 'Failed to process form' issue);
\* it returns exactly n records for n forms.  The call fails, with no
\* record, only outside a browser or when the engine does not initialize.
C3_NoFormDropped ==
    /\ [](InFormData =>
            /\ NumberedByPosition
            /\ ext.pc \in {"form", "recognize"} =>
                  /\ ~extractor.isServerSide /\ extractor.isInitialized
                  /\ Len(ext.out) = ext.i - 1
            /\ ext.pc = "returned" =>
                  /\ ext.result = ext.out
                  /\ Len(ext.result) = Len(ext.forms)
            /\ ext.pc = "threw" =>
                  /\ ext.out = <<>> /\ ext.result = <<>>
                  /\ extractor.isServerSide \/ ~extractor.isInitialized)
    /\ [][(InFormData /\ ext.pc \in {"form", "recognize"}) =>
             /\ ext'.pc \in {"form", "recognize", "returned"}
             /\ Len(ext'.out) >= Len(ext.out)
             /\ SubSeq(ext'.out, 1, Len(ext.out)) = ext.out]_vars

\* two forms were extracted in a browser, the first from its segments and
\* the second, which has none, as a failed form
C3_Witness ==
    /\ InFormData
    /\ ext.pc = "returned"
    /\ ~extractor.isServerSide
    /\ ext.forms = <<CardForm, EmptyForm>>
    /\ ext.result[1].formNumber = 1
    /\ ext.result[1].fields.email # <<>>
    /\ ext.result[2] = FailedFormRecord(2, noSegmentsMessage)

\* the confidence of a record in percent, rounded down
Percent(confidence) == (confidence.n * 100) \div confidence.d

\* the issues validateExtractedData raises on a record
ValidationIssues(record) ==
    Range(validateExtractedData(record.fields, <<>>, Percent(record.confidence)))

\* C4: every record emitted by the Extractor, from field segments or from
\* a whole page, carries the validation issue of each rule it violates
\* (donor name, email, phone, amount <= 0, confidence below 80%).
C4_EveryRecordValidated ==
    \A k \in 1..Len(ExtEmitted) :
       ValidationIssues(ExtEmitted[k]) \subseteq Range(ExtEmitted[k].issues)

\* the texts recognized for form k, joined by line breaks
RECURSIVE RecognizedText(_, _)
RecognizedText(ocrLog, k) ==
    IF ocrLog = <<>> THEN <<>>
    ELSE IF Head(ocrLog).form = k
    THEN Head(ocrLog).text \o <<"\n">> \o RecognizedText(Tail(ocrLog), k)
    ELSE RecognizedText(Tail(ocrLog), k)

Visa == <<"V", "i", "s", "a">>

\* C5: whichever path produced a record, when the payment rules find a
\* Visa card in the text recognized for the form, the record has cardType
\* 'Visa' and paymentMethod 'Credit Card (Visa)'.
C5_PaymentDetectedOnBothPaths ==
    \A k \in 1..Len(ExtEmitted) :
       extractPaymentInfo(RecognizedText(ext.ocrLog, k)).paymentDetails.cardType = Visa =>
          /\ ExtEmitted[k].fields.paymentDetails.cardType = Visa
          /\ ExtEmitted[k].fields.paymentMethod
                = <<"C", "r", "e", "d", "i", "t", " ", "C", "a", "r", "d", " ", "(">>
                  \o Visa \o <<")">>

\* C6: a form without field segments is extracted by the whole-page path:
\* its record holds the fields parseFormText reads from some text, and is
\* not the record of a failed form.
C6_EmptySegmentsUseFallback ==
    InFormData =>
       \A k \in 1..Len(ext.out) :
          ext.forms[k].fieldSegments = <<>> =>
             /\ \A j \in 1..Len(ext.out[k].issues) :
                   ext.out[k].issues[j].msg # "Failed to process form"
             /\ \E image \in SamplePageImages \cup {Buffer(<<>>)} :
                   \E confidence \in OcrConfidences :
                      ext.out[k].fields = parseFormText(image.shows, confidence).fields

----------------------------------------------------------------------------
(* Claims about the Detector (specification SpecDet) *)

DetInitializing == det.pc \in {"cvReady", "createWorker", "setParameters"}

\* C10: a detectForms call whose engine initialization fails ends with the
\* error 'Failed to initialize detector' before any page was analysed and
\* with no form returned, and leaves isInitialized false; the pages are
\* analysed only by an initialized Detector; the detectForms call that
\* follows a failed one runs initialize again.
C10_InitFailureAbortsCall ==
    /\ [](/\ det.pc = "threw" =>
               /\ det.error = "Failed to initialize detector"
               /\ det.analysed = <<>>
               /\ det.detectedForms = <<>> /\ det.result = <<>>
               /\ ~detector.isInitialized
          /\ DetInitializing => ~detector.isInitialized /\ det.analysed = <<>>
          /\ det.analysed # <<>> => detector.isInitialized)
    /\ [][/\ (DetInitializing /\ det'.pc \notin {"createWorker", "setParameters", "page"})
                => det'.pc = "threw"
          /\ (det.pc = "threw" /\ det'.pc # "threw")
                => /\ det'.pc = "cvReady"
                   /\ det'.initAttempts = det.initAttempts + 1]_vars

\* a first call failed to initialize, the second initialized and found forms
C10_Witness ==
    /\ det.calls = 2
    /\ det.initAttempts = 2
    /\ det.pc = "returned"
    /\ detector.isInitialized
    /\ Len(det.result) = 2

----------------------------------------------------------------------------
(* Claims about the OCRPipeline (specification Spec) *)

StageOrder == <<"pre", "det", "seg", "ext">>

IsPrefix(s, t) == Len(s) <= Len(t) /\ s = SubSeq(t, 1, Len(s))

\* C1: within one processDocument call the stages started so far are a
\* prefix of Preprocessor, Detector, Segmenter, Extractor, each started
\* once; a stage is started when the stage before it has returned and on
\* exactly what it returned; once a later stage has started no earlier
\* stage runs again; processDocument returns what the Extractor returned
\* after all four stages.
C1_StagesOnceInOrder ==
    /\ [](/\ IsPrefix(pipe.trace, StageOrder)
          /\ Len(pipe.trace) >= 2 => pre.pc = "returned" /\ det.images = pre.result
          /\ Len(pipe.trace) >= 3 => det.pc = "returned" /\ seg.forms = det.result
          /\ Len(pipe.trace) >= 4 => seg.pc = "returned" /\ ext.forms = seg.result
          /\ pipe.pc = "returned" =>
                /\ pipe.trace = StageOrder
                /\ ext.pc = "returned" /\ pipe.result = ext.result)
    /\ [][/\ pre'.calls # pre.calls <=>
                (pipe'.calls = pipe.calls + 1 /\ pipe'.trace = <<"pre">>)
          /\ det'.calls # det.calls <=>
                (pipe.trace = <<"pre">> /\ pipe'.trace = <<"pre", "det">>)
          /\ seg'.calls # seg.calls <=>
                (pipe.trace = <<"pre", "det">> /\ pipe'.trace = <<"pre", "det", "seg">>)
          /\ ext'.calls # ext.calls <=>
                (pipe.trace = <<"pre", "det", "seg">> /\ pipe'.trace = StageOrder)
          /\ pipe'.calls = pipe.calls => IsPrefix(pipe.trace, pipe'.trace)
          /\ (pipe'.calls = pipe.calls /\ Len(pipe.trace) >= 2) => UNCHANGED preVars
          /\ (pipe'.calls = pipe.calls /\ Len(pipe.trace) >= 3) => UNCHANGED detVars
          /\ (pipe'.calls = pipe.calls /\ Len(pipe.trace) >= 4) => UNCHANGED segVars]_vars

\* a document went through the four stages and a record came out, the
\* Detector having received a page that the Preprocessor had enhanced
C1_Witness ==
    /\ pipe.pc = "returned"
    /\ pipe.trace = StageOrder
    /\ Len(pipe.result) = 2
    /\ Len(det.images) = 1
    /\ det.images[1].imageBuffer.ops = EnhanceOps

DetInitFailed == det.pc = "threw" /\ det.error = "Failed to initialize detector"

\* C2 as stated: processDocument fails only when the Preprocessor failed or
\* the initialization of the Detector failed.
C2_FailsOnlyOnPreOrDetInit ==
    pipe.pc = "threw" => pre.pc = "threw" \/ DetInitFailed

\* the message of an issue that records an absorbed failure
AbsorbedFailures == {"Failed to process form", "Failed to process field"}

\* C2 amended: processDocument fails only when the Preprocessor failed,
\* when the initialization of the Detector failed, or when extractFormData
\* failed as a whole before processing any form, which it does outside a
\* browser and when its OCR engine does not initialize.  The Segmenter
\* never fails; once the Extractor is processing forms the call cannot fail
\* any more, and a form or a segment that fails leaves an issue on the
\* record of its form.
C2_FailsOnlyOnAbortedStage ==
    /\ [](/\ pipe.pc = "threw" =>
               \/ pre.pc = "threw" /\ pipe.trace = <<"pre">>
               \/ DetInitFailed /\ pipe.trace = <<"pre", "det">>
               \/ /\ pipe.trace = StageOrder
                  /\ ext.pc = "threw"
                  /\ ext.out = <<>>
                  /\ extractor.isServerSide \/ ~extractor.isInitialized
          /\ seg.pc # "threw"
          /\ pipe.pc = "returned" =>
                /\ Len(pipe.result) = Len(seg.result)
                /\ \A k \in 1..Len(pipe.result) :
                      seg.result[k].fieldSegments = <<>> =>
                         \E j \in 1..Len(pipe.result[k].issues) :
                            pipe.result[k].issues[j].msg \in AbsorbedFailures)
    /\ [][ext.pc \in {"form", "recognize"} => pipe'.pc # "threw" /\ ext'.pc # "threw"]_vars

\* a page failed in the Detector or a segment failed in the Segmenter or in
\* the Extractor, and processDocument returned records with the issue
C2_Witness ==
    /\ pipe.pc = "returned"
    /\ \E k \in 1..Len(pipe.result) :
          \E j \in 1..Len(pipe.result[k].issues) :
             pipe.result[k].issues[j].msg = "Failed to process field"
    /\ \E k \in 1..Len(pipe.result) :
          \E j \in 1..Len(pipe.result[k].issues) :
             pipe.result[k].issues[j].msg = "Failed to process form"

----------------------------------------------------------------------------
(* Claims about the page loop of the Detector (specification SpecDet) *)

\* what the analysis of the i-th page of the call gave
Contribution(i) == detectFormsInImage(det.images[i], det.log[i])

\* the forms of the regions of a page on which nothing was thrown
AllForms(i) ==
    <<>> \o [r \in 1..Len(det.log[i].regions) |->
                DetectedForm(det.images[i].pageNumber, r, det.log[i].regions[r])]

\* C11 as stated: whenever an exception is raised during the analysis of a
\* page, the page contributes no form.
C11_ThrowingPageGivesNoForms ==
    \A i \in 1..Len(det.log) : det.log[i].at # "none" => Contribution(i) = <<>>

\* C11 amended: once the Detector is initialized detectForms cannot fail,
\* and the forms it has collected are those of the pages analysed so far,
\* in page order, whatever was thrown on other pages.  A page contributes
\* no form when an exception reaches the catch block of detectFormsInImage
\* or is raised in findFormRegionsCV; an exception raised while the elements
\* of one form are detected leaves that form in place without elements, and
\* one raised while a candidate region is scored drops that candidate only.
C11_ThrowingPageAbsorbed ==
    /\ [](det.pc \in {"page", "returned"} =>
            /\ Len(det.log) = det.i - 1
            /\ det.detectedForms =
                  Flatten(<<>> \o [i \in 1..Len(det.log) |-> Contribution(i)])
            /\ \A i \in 1..Len(det.log) :
                  /\ det.log[i].at = "none" => Contribution(i) = AllForms(i)
                  /\ det.log[i].at \in {"bufferToMat", "cvtColor", "findContours",
                                        "roi", "matToBuffer"}
                        => Contribution(i) = <<>>
                  /\ det.log[i].at = "elements" =>
                        /\ Len(Contribution(i)) = Len(AllForms(i))
                        /\ \A r \in 1..Len(AllForms(i)) :
                              Contribution(i)[r] =
                                 IF r = det.log[i].k
                                 THEN [AllForms(i)[r] EXCEPT !.detectedElements = <<>>,
                                                             !.confidence = Zero]
                                 ELSE AllForms(i)[r]
                  /\ det.log[i].at = "likelihood" =>
                        Len(Contribution(i)) = Len(AllForms(i)) - 1
            /\ det.pc = "returned" =>
                  /\ Len(det.log) = Len(det.images)
                  /\ det.result = det.detectedForms)
    /\ [][det.pc = "page" => det'.pc \in {"page", "returned"}]_vars

\* the analysis of the first of two pages threw in extractFormRegion and
\* detectForms returned the two forms of the second page
C11_Witness ==
    /\ det.pc = "returned"
    /\ Len(det.images) = 2
    /\ det.log[1].at = "roi"
    /\ det.log[2].at = "none"
    /\ Len(det.result) = 2
    /\ det.result[1].pageNumber = 2 /\ det.result[2].pageNumber = 2

----------------------------------------------------------------------------
(* Claims about the form loop of the Segmenter *)

\* the indices of the elements from k on whose extraction gave a segment
RECURSIVE KeptFrom(_, _, _)
KeptFrom(n, k, failing) ==
    IF k > n THEN <<>>
    ELSE (IF k \in failing THEN <<>> ELSE <<k>>) \o KeptFrom(n, k + 1, failing)

\* the segmented form answers the detected form under what happened to it
Answers(segmented, form, happened) ==
    /\ segmented.formId = form.formId
    /\ segmented.pageNumber = form.pageNumber
    /\ IF happened.throws
       THEN segmented.fieldSegments = <<>> /\ segmented.confidence = Zero
       ELSE /\ segmented.confidence = form.confidence
            /\ Len(segmented.fieldSegments) =
                   Len(form.detectedElements) - Cardinality(happened.failing)
            /\ \A j \in 1..Len(segmented.fieldSegments) :
                  LET e == form.detectedElements[
                               KeptFrom(Len(form.detectedElements), 1, happened.failing)[j]]
                  IN /\ segmented.fieldSegments[j].fieldType = e.type
                     /\ segmented.fieldSegments[j].label = labelOrType(e)
                     /\ segmented.fieldSegments[j].fieldId =
                            fieldId(form.formId, labelOrType(e))

\* C12: segmentFormFields never throws because of a form or an element: it
\* returns one segmented form per detected form, in the same order and with
\* the same formId and pageNumber; an element whose extraction fails is
\* dropped while the others are segmented in their order, and a form whose
\* segmentation throws as a whole has no segments and confidence 0.
C12_OneSegmentedFormPerForm ==
    /\ seg.pc \in {"idle", "form", "returned"}
    /\ seg.pc = "form" =>
          /\ Len(seg.segmentedForms) = seg.i - 1
          /\ \A k \in 1..Len(seg.segmentedForms) :
                Answers(seg.segmentedForms[k], seg.forms[k], seg.log[k])
    /\ seg.pc = "returned" =>
          /\ Len(seg.result) = Len(seg.forms)
          /\ \A k \in 1..Len(seg.forms) :
                Answers(seg.result[k], seg.forms[k], seg.log[k])

\* three forms were segmented: in the first an element failed, the second
\* threw as a whole, and in the third the middle element of three failed
C12_Witness ==
    /\ seg.pc = "returned"
    /\ Len(seg.forms) = 3
    /\ seg.log[1] = [failing |-> {1}, throws |-> FALSE]
    /\ Len(seg.result[1].fieldSegments) = 1
    /\ seg.log[2].throws
    /\ seg.result[2].confidence = Zero
    /\ seg.log[3] = [failing |-> {2}, throws |-> FALSE]
    /\ Len(seg.result[3].fieldSegments) = 2
    /\ seg.result[3].fieldSegments[2].fieldType = "signature_area"

----------------------------------------------------------------------------
(* Claims about the functions on text and card numbers *)

\* the last position of the run of digits that starts at position p
RECURSIVE DigitRunEnd(_, _)
DigitRunEnd(text, p) ==
    IF p + 1 <= Len(text) /\ text[p + 1] \in Digits THEN DigitRunEnd(text, p + 1) ELSE p

\* the last position of the groups ",ddd" that follow position q
RECURSIVE GroupsEnd(_, _)
GroupsEnd(text, q) ==
    IF q + 4 <= Len(text) /\ text[q + 1] = ","
       /\ \A k \in (q + 2)..(q + 4) : text[k] \in Digits
    THEN GroupsEnd(text, q + 4) ELSE q

\* the positions of the "$" signs that are followed by a digit
DollarSigns(text) ==
    {p \in 1..(Len(text) - 1) : text[p] = "$" /\ text[p + 1] \in Digits}

\* the integer value of the amount written after the "$" at position p
WrittenAmount(text, p) ==
    parseInt(DropChars(SubSeq(text, p + 1, GroupsEnd(text, DigitRunEnd(text, p + 1))),
                       {","}))

\* the "$" signs whose amount lies within the donation band
InBand(text) ==
    {p \in DollarSigns(text) :
        WrittenAmount(text, p) >= 25 /\ WrittenAmount(text, p) <= 25000}

\* C13: extractAmount returns the first "$"-prefixed amount of the text, in
\* text order, whose integer value lies in [25, 25000], and 0 when no amount
\* of the text lies in that band.
C13_FirstAmountInBand ==
    (Len(util.calls) = 1 /\ util.calls[1].fn = "extractAmount") =>
        util.calls[1].ret =
            (IF InBand(util.x) = {} THEN 0
             ELSE WrittenAmount(util.x, MinOf(InBand(util.x))))

----------------------------------------------------------------------------
(* Claims about the segment path of the Extractor (specification SpecExt) *)

\* text is a date written MM/DD/YYYY or MM-DD-YYYY
IsMonthDayYear(text) ==
    /\ Len(text) = 10
    /\ \A k \in {1, 2, 4, 5, 7, 8, 9, 10} : text[k] \in Digits
    /\ text[3] \in {"/", "-"}
    /\ text[6] \in {"/", "-"}

\* YYYY-MM-DD of a date written month first
MonthFirst(text) ==
    SubSeq(text, 7, 10) \o <<"-">> \o SubSeq(text, 1, 2) \o <<"-">> \o SubSeq(text, 4, 5)

\* C14: on the segment path, a date_field segment whose recognized text is a
\* date written MM/DD/YYYY or MM-DD-YYYY sets fields.date of its form to
\* YYYY-MM-DD, the first number being the month and the second the day.
C14_DateFieldMonthFirst ==
    InFormData =>
       \A j \in 1..Len(ext.ocrLog) :
          (/\ ext.ocrLog[j].form <= Len(ExtEmitted)
           /\ Len(ext.forms[ext.ocrLog[j].form].fieldSegments) = 1
           /\ ext.forms[ext.ocrLog[j].form].fieldSegments[1].fieldType = "date_field"
           /\ IsMonthDayYear(ext.ocrLog[j].text))
          => ExtEmitted[ext.ocrLog[j].form].fields.date = MonthFirst(ext.ocrLog[j].text)

\* the text holds "cash" in any case and a mark
CashMarked(text) ==
    /\ \E at \in 1..(Len(text) - 3) : toLowerCase(SubSeq(text, at, at + 3)) = <<"c", "a", "s", "h">>
    /\ \E at \in 1..Len(text) : text[at] \in {"X", "CHECK"}

\* the text holds "check" in any case
CheckNamed(text) ==
    \E at \in 1..(Len(text) - 4) : toLowerCase(SubSeq(text, at, at + 4)) = <<"c", "h", "e", "c", "k">>

\* the method that the priority Cash, Check, credit card, Unknown gives
MethodByPriority(text, T) ==
    IF CashMarked(text) THEN <<"C", "a", "s", "h">>
    ELSE IF CheckNamed(text) THEN <<"C", "h", "e", "c", "k">>
    ELSE IF T # <<>> THEN <<"C", "r", "e", "d", "i", "t", " ", "C", "a", "r", "d", " ", "(">> \o T \o <<")">>
    ELSE <<"U", "n", "k", "n", "o", "w", "n">>

IsCreditCard(method) == Len(method) >= 11 /\ SubSeq(method, 1, 11) = <<"C", "r", "e", "d", "i", "t", " ", "C", "a", "r", "d">>

\* C15: extractPaymentInfo gives 'Cash' for a text with 'cash' and a mark,
\* otherwise 'Check' for a text with 'check', otherwise 'Credit Card (T)'
\* with cardType T when a card type T is detected, otherwise 'Unknown';
\* number, expiry, CVV and cardholder are filled in the credit-card case only.
C15_MethodByStrictPriority ==
    (Len(util.calls) = 1 /\ util.calls[1].fn = "extractPaymentInfo") =>
        LET info == util.calls[1].ret
        IN /\ info.paymentMethod =
                  MethodByPriority(util.x, detectCreditCardType(util.x).cardType)
           /\ IF IsCreditCard(info.paymentMethod)
              THEN info.paymentDetails.cardType = detectCreditCardType(util.x).cardType
              ELSE \A f \in DOMAIN info.paymentDetails : info.paymentDetails[f] = <<>>

\* a text with a marked 'cash', a 'check' and a card brand was given 'Cash',
\* and nothing of the card
C15_Witness ==
    /\ Len(util.calls) = 1
    /\ util.calls[1].fn = "extractPaymentInfo"
    /\ util.x = <<"C", "A", "S", "H", " ", "CHECK", " ", "c", "h", "e", "c", "k", " ", "V", "i", "s", "a">>
    /\ util.calls[1].ret.paymentMethod = <<"C", "a", "s", "h">>
    /\ util.calls[1].ret.paymentDetails.cardType = <<>>

\* the digits of s, in order
DigitsOf(s) == SelectSeq(s, LAMBDA c : c \in Digits)

\* the value of the digit at position i counted from the right, doubled when
\* it is a second digit, with 9 taken off a doubled value above 9
LuhnTerm(digits, i) ==
    LET d == DigitValue(digits[Len(digits) + 1 - i])
    IN  IF i % 2 = 1 THEN d ELSE IF 2 * d > 9 THEN 2 * d - 9 ELSE 2 * d

RECURSIVE LuhnChecksumTo(_, _)
LuhnChecksumTo(digits, i) ==
    IF i = 0 THEN 0 ELSE LuhnTerm(digits, i) + LuhnChecksumTo(digits, i - 1)

LuhnChecksum(digits) == LuhnChecksumTo(digits, Len(digits))

\* the positions of s that hold a digit
DigitPositions(s) == {p \in 1..Len(s) : s[p] \in Digits}

\* C16: validateCardNumber is true exactly when the input has, once the
\* characters that are no digits are removed, 13 to 19 digits whose Luhn
\* checksum is 0 modulo 10; and after a valid number, replacing any one
\* digit by another digit gives a number for which it is false.
C16_LuhnValidity ==
    (Len(util.calls) = 1 /\ util.calls[1].fn = "validateCardNumber") =>
        /\ util.calls[1].ret =
              (/\ Len(DigitsOf(util.x)) >= 13
               /\ Len(DigitsOf(util.x)) <= 19
               /\ LuhnChecksum(DigitsOf(util.x)) % 10 = 0)
        /\ util.calls[1].ret =>
              \A p \in DigitPositions(util.x) : \A c \in Digits \ {util.x[p]} :
                 ~validateCardNumber([util.x EXCEPT ![p] = c])

\* a number written with spaces was found valid
C16_Witness ==
    /\ Len(util.calls) = 1
    /\ util.calls[1].fn = "validateCardNumber"
    /\ util.calls[1].ret
    /\ util.x = <<"4", "1", "1", "1", " ", "1", "1", "1", "1", " ", "1", "1", "1", "1", " ", "1", "1", "1", "1">>

\* the last four characters of s
LastFour(s) == SubSeq(s, Len(s) - 3, Len(s))

\* maskCardNumber was called on the result of formatCardNumber for a string
\* of more than 4 digits
MaskedFormatted ==
    /\ Len(util.calls) = 2
    /\ util.calls[1].fn = "formatCardNumber"
    /\ util.calls[2].fn = "maskCardNumber"
    /\ util.calls[2].arg = util.calls[1].ret
    /\ Len(util.x) > 4
    /\ \A p \in 1..Len(util.x) : util.x[p] \in Digits

\* C17: for a digit string x of more than 4 digits, the output of
\* maskCardNumber(formatCardNumber(x)) ends with the last 4 digits of x, and
\* these are the only digits in it.
C17_MaskShowsLastFourOnly ==
    MaskedFormatted =>
        /\ Len(util.calls[2].ret) >= 4
        /\ LastFour(util.calls[2].ret) = LastFour(util.x)
        /\ DigitsOf(util.calls[2].ret) = LastFour(util.x)

\* a 16-digit number was formatted in groups and then masked
C17_Witness ==
    /\ MaskedFormatted
    /\ util.x = CardNumber(<<"5", "1">>, 16, "8")
    /\ Len(util.calls[1].ret) = 19
    /\ DigitsOf(util.calls[2].ret) = LastFour(util.x)

\* the two rule sets name the same brand, or neither names one
SameBrand(byTable, byPrefix) ==
    IF byTable = <<"U", "n", "k", "n", "o", "w", "n">> THEN byPrefix = <<>> ELSE byPrefix = byTable

\* C18: for every card number of 13 to 19 digits, detectCardType and the
\* card-number-prefix rules of Extractor.detectCreditCardType give the same
\* brand, or both give none.
C18_PrefixRulesAgree ==
    (/\ Len(util.calls) = 1
     /\ util.calls[1].fn = "detectCardType"
     /\ Len(util.x) >= 13
     /\ Len(util.x) <= 19
     /\ \A p \in 1..Len(util.x) : util.x[p] \in Digits)
    => SameBrand(util.calls[1].ret, cardTypeByPrefix(util.x))

----------------------------------------------------------------------------
(* Claims about the CV matrices of the Detector (specification SpecDet) *)

\* C19: when the analysis of a page has returned, every CV matrix allocated
\* during it has been released, on the normal path and on every path where
\* a step of the analysis throws.
C19_MatsReleased ==
    \A i \in 1..Len(det.log) : liveMats(det.log[i]) = {}

\* the entries of the log for form k, in the order of recognition
LogOfForm(k) == SelectSeq(ext.ocrLog, LAMBDA e : e.form = k)

\* the segments of form k for which no text was recognized
FailedSegments(k) ==
    {s \in 1..Len(ext.forms[k].fieldSegments) :
        \A j \in 1..Len(ext.ocrLog) : ~(ext.ocrLog[j].form = k /\ ext.ocrLog[j].s = s)}

\* the fields after processFieldSegment has run on the first n entries
RECURSIVE FieldsAfter(_, _, _)
FieldsAfter(k, entries, n) ==
    IF n = 0 THEN [fields |-> EmptyFields, issues |-> <<>>]
    ELSE processFieldSegment(ext.forms[k].fieldSegments[entries[n].s], entries[n].text,
                             FieldsAfter(k, entries, n - 1).fields, <<>>)

RECURSIVE ConfidenceSum(_)
ConfidenceSum(entries) ==
    IF entries = <<>> THEN 0 ELSE Head(entries).confidence + ConfidenceSum(Tail(entries))

\* the issue of a failed segment
FailureIssue(segment) ==
    IssueAbout("Failed to process field", <<segment.fieldType>> \o segment.fieldId)

\* C20: in the record of a form with segments, each segment that failed OCR
\* has its issue 'Failed to process <fieldType> field: <fieldId>', the other
\* segments have all been processed into the fields, and the confidence is
\* the mean OCR confidence of the processed segments divided by 100, 0 when
\* there is none: a value within [0, 1].
C20_FailedSegmentIsAnIssue ==
    InFormData =>
       \A k \in 1..Len(ExtEmitted) :
          ext.forms[k].fieldSegments # <<>> =>
             /\ \A s \in FailedSegments(k) :
                   FailureIssue(ext.forms[k].fieldSegments[s]) \in Range(ExtEmitted[k].issues)
             /\ Cardinality({j \in 1..Len(ExtEmitted[k].issues) :
                                ExtEmitted[k].issues[j].msg = "Failed to process field"})
                   = Cardinality(FailedSegments(k))
             /\ Len(LogOfForm(k)) + Cardinality(FailedSegments(k))
                   = Len(ext.forms[k].fieldSegments)
             /\ ExtEmitted[k].fields = FieldsAfter(k, LogOfForm(k), Len(LogOfForm(k))).fields
             /\ ExtEmitted[k].confidence =
                   (IF LogOfForm(k) = <<>> THEN Zero
                    ELSE Frac(ConfidenceSum(LogOfForm(k)), 100 * Len(LogOfForm(k))))
             /\ ExtEmitted[k].confidence.d > 0
             /\ ExtEmitted[k].confidence.n >= 0
             /\ ExtEmitted[k].confidence.n <= ExtEmitted[k].confidence.d

\* the first segment of a form failed and the second was read with
\* confidence 90: the record has the issue, the amount and confidence 0.9
C20_Witness ==
    /\ InFormData
    /\ ext.pc = "returned"
    /\ ext.forms = <<EmptyForm, DonorForm>>
    /\ FailedSegments(2) = {1}
    /\ FailureIssue(DonorForm.fieldSegments[1]) \in Range(ext.result[2].issues)
    /\ ext.result[2].fields.amount = 100
    /\ ext.result[2].confidence = Frac(90, 100)

----------------------------------------------------------------------------
(* Claims about the bounding boxes of the Segmenter (specification SpecBox) *)

Refined == Len(util.calls) = 1 /\ util.calls[1].fn = "refineBoundingBox"

\* C21: the refined box extends the box of the element by exactly 5 pixels
\* on each of its four sides (x and y less by 5, width and height more by
\* 10), also for a box less than 5 pixels from the left or top edge, and
\* keeps x >= 0, y >= 0, width > 0 and height > 0.
C21_PadsFiveOnEachSide ==
    Refined =>
        LET box == util.x
            refined == util.calls[1].ret
        IN /\ refined.x = box.x - 5
           /\ refined.y = box.y - 5
           /\ refined.width = box.width + 10
           /\ refined.height = box.height + 10
           /\ refined.x >= 0 /\ refined.y >= 0
           /\ refined.width > 0 /\ refined.height > 0

(* Claims about the confidence of a detected form (specification SpecConf) *)

InUnit(confidence) ==
    confidence.d > 0 /\ 0 <= confidence.n /\ confidence.n <= confidence.d

Enhanced == Len(util.calls) >= 1 /\ util.calls[1].fn = "enhanceElementsWithOCR"

Calculated == Len(util.calls) = 2 /\ util.calls[2].fn = "calculateFormConfidence"

\* a + b, at most 1
CappedSum(a, b) == IF InUnit(FracSum(a, b)) THEN FracSum(a, b) ELSE One

\* the mean of the confidences of the elements: the fraction m with
\* m * Len(elements) equal to their sum
IsMean(m, elements) ==
    m.n * Len(elements) * SumElementConfidence(elements).d = SumElementConfidence(elements).n * m.d

\* C22: the confidence of a form is 0 without elements; otherwise it is the
\* mean of the confidences of its elements, plus 0.15 when one label
\* contains 'name' and one contains 'amount', plus 0.10 when the elements have
\* at least three distinct types, each sum capped at 1.  The OCR pass keeps
\* every element's confidence within [0, 1], and the form's confidence is
\* then within [0, 1].
C22_FormConfidenceInUnit ==
    /\ Enhanced =>
          \A k \in 1..Len(util.calls[1].ret) : InUnit(util.calls[1].ret[k].confidence)
    /\ Calculated =>
          LET elements == util.calls[2].arg
              confidence == util.calls[2].ret
              named == \E k \in 1..Len(elements) : includes(elements[k].label, <<"n", "a", "m", "e">>)
              priced == \E k \in 1..Len(elements) : includes(elements[k].label, <<"a", "m", "o", "u", "n", "t">>)
              types == {elements[k].type : k \in 1..Len(elements)}
          IN  /\ InUnit(confidence)
              /\ elements = <<>> => confidence = Zero
              /\ elements # <<>> =>
                    \E m \in {Frac(n, 100 * Len(elements)) : n \in 0..(100 * Len(elements))} :
                        /\ IsMean(m, elements)
                        /\ LET keyed == IF named /\ priced THEN CappedSum(m, Frac(15, 100)) ELSE m
                           IN  confidence = IF Cardinality(types) >= 3
                                            THEN CappedSum(keyed, Frac(10, 100))
                                            ELSE keyed

\* a form whose two boosts are both cut at 1, after an OCR pass that changed
\* the type of an element
C22_Witness ==
    /\ Calculated
    /\ util.calls[2].ret = One
    /\ Cardinality({util.calls[2].arg[k].type : k \in 1..Len(util.calls[2].arg)}) >= 3
    /\ \E k \in 1..Len(util.x.elements) :
          /\ util.calls[1].ret[k].type # util.x.elements[k].type
          /\ includes(util.calls[1].ret[k].label, <<"a", "m", "o", "u", "n", "t">>)
    /\ \E k \in 1..Len(util.x.elements) : includes(util.calls[1].ret[k].label, <<"n", "a", "m", "e">>)
    /\ SumElementConfidence(util.calls[2].arg).n
          < Len(util.calls[2].arg) * SumElementConfidence(util.calls[2].arg).d

(* Claims about the images handed to the Detector (specifications Spec and SpecPage) *)

HandedToDetector == pipe.calls > 0 /\ det.calls > 0

SizedAsDecoded(image) ==
    /\ image.width = getImageSize(image.imageBuffer).width
    /\ image.height = getImageSize(image.imageBuffer).height

\* C23: every image handed to the Detector by the pipeline has the width
\* and the height of its decoded buffer, also when its enhancement failed
\* and the image was passed on as it was.
C23_DetectorImagesSized ==
    HandedToDetector => \A k \in 1..Len(det.images) : SizedAsDecoded(det.images[k])

\* the Detector was handed a page whose enhancement failed
C23_FailedEnhancementHandedOn ==
    /\ HandedToDetector
    /\ Len(det.images) > 0
    /\ \E k \in 1..Len(pre.enh) : pre.enh[k].failedAt > 0

(* Claims about a Detector used by concurrent callers (specification SpecShared) *)

Unreferenced(w) == sharedDetector.tesseractWorker # w

\* C24: whatever the interleaving of concurrent detectForms calls on one
\* Detector, at most one OCR worker is created between construction (or the
\* last cleanup) and the next cleanup, and every worker created is the one
\* the Detector refers to or has been terminated.
C24_OneWorkerNoneOrphaned ==
    /\ sharedDetector.created <= 1
    /\ \A w \in 1..Len(sharedDetector.workers) :
          Unreferenced(w) => sharedDetector.workers[w] = "terminated"

(* Claims about the concurrent enhancement of the pages (specification SpecPre) *)

\* C25: the pages of a document are enhanced concurrently; in whatever
\* order the enhancements finish or fail, the returned list is as long as the
\* list of rasterized pages and its i-th element is page i; a page whose
\* enhancement failed is at its position as it was rasterized.
C25_ResultInPageOrder ==
    pre.pc = "returned" =>
        /\ Len(pre.result) = Len(pre.images)
        /\ \A i \in 1..Len(pre.result) :
              /\ pre.result[i].pageNumber = i
              /\ pre.enh[i].failedAt > 0 => pre.result[i] = pre.images[i]
              /\ pre.enh[i].failedAt = 0 =>
                    /\ pre.result[i].imageBuffer.page = i
                    /\ pre.result[i].imageBuffer.ops = EnhanceOps

\* two pages are returned; the second finished before the first, which failed
C25_Witness ==
    /\ pre.pc = "returned"
    /\ Len(pre.result) = 2
    /\ pre.finished = <<2, 1>>
    /\ pre.enh[1].failedAt > 0
    /\ pre.enh[2].failedAt = 0

(* Claims about the metrics of the Preprocessor (specification SpecPre) *)

AverageWellDefined ==
    /\ IsFinite(preMetrics.averageProcessingTime)
    /\ preMetrics.averageProcessingTime.n >= 0

\* a step changes totalProcessed only when a call returns, and then by the
\* number of pages returned
TotalCountsReturned ==
    preMetrics'.totalProcessed =
        IF pre.pc # "returned" /\ pre'.pc = "returned"
        THEN preMetrics.totalProcessed + Len(pre'.result)
        ELSE preMetrics.totalProcessed

\* C26: after any sequence of processDocument calls, also calls on a PDF of
\* which no page could be rasterized, totalProcessed is the number of pages
\* returned by the successful calls and averageProcessingTime is a finite
\* number that is not negative.
C26_MetricsWellDefined == [][TotalCountsReturned]_vars /\ []AverageWellDefined

\* the part of C26 on totalProcessed
C26_TotalOnly == [][TotalCountsReturned]_vars

(* Claims about the QueueManager (specifications SpecQueue and SpecQueueFair) *)

JobsWith(status) == {k \in 1..Len(queue.jobs) : queue.jobs[k].status = status}

AtMostOneActive == Cardinality(JobsWith("active")) <= 1

CompletedHasFullProgress == \A k \in JobsWith("completed") : queue.jobs[k].progress = 100

\* a step taken while isProcessing is true leaves every waiting job waiting
WaitingStaysWhileProcessing ==
    queue.isProcessing =>
        \A k \in JobsWith("waiting") : queue'.jobs[k].status = "waiting"

\* C27: with jobs added under pairwise distinct jobIds, and no change to a
\* job but by the queue processor, at most one job is 'active', no job
\* leaves 'waiting' while isProcessing is true, and a 'completed' job has
\* progress 100.
C27_OneJobAtATime ==
    /\ [](~queue.readded => AtMostOneActive /\ CompletedHasFullProgress)
    /\ [][~queue'.readded => WaitingStaysWhileProcessing]_vars

\* one job is completed, one is being processed and one is waiting
C27_Witness ==
    /\ ~queue.readded
    /\ queue.isProcessing
    /\ JobsWith("completed") # {}
    /\ JobsWith("active") # {}
    /\ JobsWith("waiting") # {}

Added(jobId) == jobIndex(queue.jobs, jobId) # 0

Completed(jobId) ==
    /\ Added(jobId)
    /\ queue.jobs[jobIndex(queue.jobs, jobId)].status = "completed"
    /\ queue.jobs[jobIndex(queue.jobs, jobId)].progress = 100
    /\ queue.jobs[jobIndex(queue.jobs, jobId)].completedAt

\* in one step the status of a job stays as it is or moves from waiting to
\* active or from active to completed
StatusMovesForward ==
    \A k \in 1..Len(queue.jobs) :
        \/ queue'.jobs[k].status = queue.jobs[k].status
        \/ queue.jobs[k].status = "waiting" /\ queue'.jobs[k].status = "active"
        \/ queue.jobs[k].status = "active" /\ queue'.jobs[k].status = "completed"

\* the jobs started so far are the first jobs added, in the order added
StartedInOrderAdded ==
    /\ Len(queue.started) <= Len(queue.jobs)
    /\ \A k \in 1..Len(queue.started) : queue.started[k] = queue.jobs[k].id

\* C28: while the tick of the processor keeps firing, every job added under
\* a jobId of its own is eventually 'completed' with progress 100 and a
\* completedAt timestamp; its status only moves from waiting to active to
\* completed; and jobs start in the order in which they were added.
C28_EveryJobCompletesInOrder ==
    /\ \A jobId \in 1..MaxJobs :
          (Added(jobId) /\ ~queue.readded) ~> (Completed(jobId) \/ queue.readded)
    /\ [][~queue'.readded => StatusMovesForward]_vars
    /\ [](~queue.readded => StartedInOrderAdded)

\* three jobs, added in an order that is not that of their jobIds, have all
\* been completed
C28_Witness ==
    /\ ~queue.readded
    /\ Len(queue.jobs) = 3
    /\ queue.jobs[1].id > queue.jobs[2].id
    /\ \A jobId \in 1..MaxJobs : Completed(jobId)
    /\ Len(queue.started) = 3

(* Claims about the upload interface (specifications SpecUpload and SpecUploadFair) *)

\* the status of the record with this id among the files given, "none" when
\* there is no such record
StatusOf(files, id) ==
    IF \E k \in 1..Len(files) : files[k].id = id
    THEN files[CHOOSE k \in 1..Len(files) : files[k].id = id].status
    ELSE "none"

Shown(id) == StatusOf(upload.uploadedFiles, id)

Occurrences(s, x) == Cardinality({k \in 1..Len(s) : s[k] = x})

\* the handleFiles call has ended, each of its records processed once
EachProcessedOnce ==
    upload.pc = "idle" =>
        \A k \in 1..Len(upload.newFiles) :
            Occurrences(upload.processed, upload.newFiles[k].id) = 1

\* C29: every record made by a handleFiles call eventually leaves 'pending'
\* and becomes 'completed' or 'error', provided every OCR request returns or
\* fails; each record is processed exactly once by the call; so also when
\* two files of the call have the same name.
C29_EveryRecordSettles ==
    /\ \A id \in 1..MaxFileId :
          (Shown(id) = "pending") ~> (Shown(id) \in {"completed", "error", "none"})
    /\ []EachProcessedOnce

Stored == getUploadedFiles(upload.storage)

\* no file given to removeFile is in the stored list
RemovedNotStored ==
    \A id \in upload.removed : StatusOf(Stored, id) = "none"

\* a removeFile step leaves the stored entries of the other files as they
\* were
RemoveKeepsOthers ==
    upload'.removed # upload.removed =>
        \A k \in 1..Len(Stored) :
            Stored[k].id \notin upload'.removed =>
                \E j \in 1..Len(getUploadedFiles(upload'.storage)) :
                    getUploadedFiles(upload'.storage)[j] = Stored[k]

\* C30: after removeFile(fileId) the list of uploaded files in local
\* storage has no entry with that id and its other entries are as before,
\* so that the component, when loaded again from local storage, does not
\* show the file.
C30_RemovedFromStorage == []RemovedNotStored /\ [][RemoveKeepsOthers]_vars

\* the part of C30 on the other entries
C30_OthersOnly == [][RemoveKeepsOthers]_vars

\* a file given to removeFile is shown again after a reload
RemovedShownAgain ==
    \E id \in upload.removed : Shown(id) # "none"

====
